---- MODULE Spec2Model ----
(***************************************************************************)
(* The authoritative multiplayer session server of birdgame3               *)
(* (src/unnamed/part_013, the later revision of src/server/index.ts):      *)
(* presence registry, score ledger, lobby manager, race session engine,    *)
(* battle session engine and the periodic janitors, as one state machine.  *)
(* Every socket.io handler and every timer callback is one action; a       *)
(* handler whose guard fails is a step that changes nothing.  Spec is the  *)
(* whole server; SpecRace, SpecLobby, SpecTwoLobbies, SpecBattle and       *)
(* SpecCtf are the same handlers driven by a part of the clients'          *)
(* repertoire, each small enough to be explored exhaustively.              *)
(***************************************************************************)
EXTENDS Integers, Sequences, FiniteSets, TLC

\* ------------------------------------------------------------------ bounds
MaxPlayers == 3        \* connections opened during a run (socket ids 1..MaxPlayers)
MaxLobbies == 2        \* lobbies created during a run (lobby ids 1..MaxLobbies)
MaxClients == 2        \* distinct fingerprints (ip + user agent)
MaxCheckpoint == 2     \* largest checkpoint count a client reports
MaxTime == 1           \* last value of the millisecond clock
MaxIntervals == 2      \* countdown intervals armed at the same time
MaxPickups == 1        \* pickups seeded per battle (the code seeds 10)
MaxShots == 1          \* projectiles a player fires below its starting ammo
MaxBoosts == 1         \* ammo pickups a player holds above its starting ammo
MaxDeaths == 1         \* deaths per battle player
MaxGoals == 1          \* goals per team
DuelPlayers == 2       \* connections opened in a two-player scenario
SoloLobbies == 1       \* lobbies created in a one-lobby scenario
SoloIntervals == 1     \* countdown intervals armed at once in a one-countdown scenario
MaxClock == 3          \* sweep periods the clock of the sweep scenario runs for
MaxExcess == 1

\* ------------------------------------------------------- program constants
Null == 0              \* null / undefined for ids (ids are positive)
NoCountdown == -1      \* Lobby.countdown = null
CountdownStart == 3
WinCheckpoints == 999999
DisplayCheckpoints == 20
ParticipationPoint == 1
StartHp == 100
StartAmmo == 20
HealthBoost == 50
AmmoBoost == 10
PickupRadius == 20
StealRadius == 15
GoalRadius == 20
StartOffsetZ == 100
FlagLift == 50
BaseOffset == 200
QuietInterval == 10000 \* ms without an update after which the sweep removes a player
SweepPeriod == 5000    \* ms between two runs of the inactive-player sweep

PointsAward == <<100, 50, 25>>
SpawnPosition == <<0, 350, 0>>
FlagResetPosition == <<0, 350, 0>>

\* ---------------------------------------------------------------- helpers
Put(f, k, v) == [x \in (DOMAIN f) \cup {k} |-> IF x = k THEN v ELSE f[x]]
Drop(f, k) == [x \in (DOMAIN f) \ {k} |-> f[x]]
SeqRemoveAt(s, i) == SubSeq(s, 1, i - 1) \o SubSeq(s, i + 1, Len(s))
Max(a, b) == IF a >= b THEN a ELSE b
Min(a, b) == IF a <= b THEN a ELSE b

\* An emitted socket.io event: its name, its audience and its payload.
\* Audiences: <<"socket", id>> (socket.emit / io.to(id)), <<"others", id>>
\* (socket.broadcast / socket.to(room)), <<"lobby"|"race"|"battle", id>> (a room)
\* and <<"all", 0>> (io.emit).
Event(ev, to, data) == [ev |-> ev, to |-> to, data |-> data]
ToSocket(p) == <<"socket", p>>
ToAll == <<"all", Null>>

VARIABLES
    players,          \* players: Map<id, PlayerState>
    lobbies,          \* lobbies: the keys of the lobby store
    lobbyObjects,     \* the Lobby objects, in the store or held by a countdown closure
    intervals,        \* the armed countdown intervals (setInterval closures)
    races,            \* races: Map<id, RaceSession>
    battles,          \* battles: Map<id, BattleSession>
    pickupTimers,     \* pending pickup-respawn timeouts (setTimeout closures)
    globalScores,     \* globalScores: Map<fingerprint, score>
    nextPlayer,       \* socket ids handed out so far
    nextLobby,        \* lobby ids generated so far
    now,              \* Date.now()
    rankings          \* history variable: per race id, the End-of-Race rankings run

vars == <<players, lobbies, lobbyObjects, intervals, races, battles,
          pickupTimers, globalScores, nextPlayer, nextLobby, now, rankings>>

\* The server's state as one record. A handler is an operator from its inputs to
\* the record after it has run, `out` holding the events it emitted in order; the
\* handler's action then moves the variables to that record.
Cur ==
    [ players |-> players, lobbies |-> lobbies,
      lobbyObjects |-> lobbyObjects, intervals |-> intervals, races |-> races,
      battles |-> battles, pickupTimers |-> pickupTimers, globalScores |-> globalScores,
      nextPlayer |-> nextPlayer, nextLobby |-> nextLobby, now |-> now,
      rankings |-> rankings, out |-> <<>> ]

Apply(res) ==
    /\ players' = res.players
    /\ lobbies' = res.lobbies
    /\ lobbyObjects' = res.lobbyObjects
    /\ intervals' = res.intervals
    /\ races' = res.races
    /\ battles' = res.battles
    /\ pickupTimers' = res.pickupTimers
    /\ globalScores' = res.globalScores
    /\ nextPlayer' = res.nextPlayer
    /\ nextLobby' = res.nextLobby
    /\ now' = res.now
    /\ rankings' = res.rankings

\* The socket ids handed out so far. The handlers of a socket stay registered after
\* the inactive-player sweep has removed its PlayerState.
EverConnected == 1..nextPlayer

\* A handler's result that changes no state (whatever it emitted).
NoChange(res) == [res EXCEPT !.out = <<>>] = Cur

\* ------------------------------------------------------------------ lobby
\* Map<string, LobbyPlayer> is a sequence of member records in insertion order.
MemberIds(lobby) == {lobby.players[i].id : i \in DOMAIN lobby.players}
MemberIndex(lobby, p) == CHOOSE i \in DOMAIN lobby.players : lobby.players[i].id = p

\* Map.prototype.set: an existing key keeps its place, a new key goes last.
MapSet(members, rec) ==
    IF \E i \in DOMAIN members : members[i].id = rec.id
    THEN [i \in DOMAIN members |-> IF members[i].id = rec.id THEN rec ELSE members[i]]
    ELSE Append(members, rec)

\* Map.prototype.delete
MapDelete(members, p) ==
    IF \E i \in DOMAIN members : members[i].id = p
    THEN SeqRemoveAt(members, CHOOSE i \in DOMAIN members : members[i].id = p)
    ELSE members

\* Lobby objects no closure and no store entry refers to are unreachable.
Reachable(objs, store, ivs) ==
    [l \in {x \in DOMAIN objs : x \in store \/ \E i \in DOMAIN ivs : ivs[i].lobby = x}
        |-> objs[l]]

\* broadcastPortals(): the advertised lobbies (id, member count), not yet started.
PortalList(objs, store) ==
    {<<l, Len(objs[l].players)>> : l \in {x \in store : ~objs[x].raceStarted}}
BroadcastPortals(objs, store) == Event("portals:update", ToAll, PortalList(objs, store))

\* ------------------------------------------------------------ initial state
Init ==
    /\ players = <<>>
    /\ lobbies = {}
    /\ lobbyObjects = <<>>
    /\ intervals = <<>>
    /\ races = <<>>
    /\ battles = <<>>
    /\ pickupTimers = <<>>
    /\ globalScores = <<>>
    /\ nextPlayer = 0
    /\ nextLobby = 0
    /\ now = 0
    /\ rankings = <<>>

\* --------------------------------------------------------------- registry
\* globalScores.get(fingerprint) || 0
SavedScore(scores, f) == IF f \in DOMAIN scores THEN scores[f] ELSE 0

NewPlayerState(id, f, scores) ==
    [ id |-> id, position |-> SpawnPosition, inRace |-> FALSE, raceId |-> Null,
      raceCheckpoints |-> 0, lobbyId |-> Null, lastUpdate |-> now,
      score |-> SavedScore(scores, f), fingerprint |-> f ]

\* io.on('connection'): a new socket id, a fingerprint from the handshake.
ConnectResult(f) ==
    LET id == nextPlayer + 1 IN
    [Cur EXCEPT !.nextPlayer = id,
                !.players = Put(players, id, NewPlayerState(id, f, globalScores)),
                !.out = << Event("welcome", ToSocket(id),
                                 <<id, SavedScore(globalScores, f)>>),
                           Event("player:joined", <<"others", id>>, <<id>>) >>]

Connect(f) ==
    /\ nextPlayer < MaxPlayers
    /\ f \in 1..Min(MaxClients, nextPlayer + 1)
    /\ Apply(ConnectResult(f))

\* A player:update that stores the report whether or not the socket still has a
\* PlayerState, creating one when it has none.
PlayerUpdateUpsert(p, pos) ==
    LET player == IF p \in DOMAIN players THEN players[p]
                  ELSE NewPlayerState(p, Null, globalScores)
    IN [Cur EXCEPT !.players = Put(players, p, [player EXCEPT !.position = pos,
                                                              !.lastUpdate = now]),
                   !.out = << Event("player:moved", <<"others", p>>, <<p, pos>>) >>]

\* socket.on('player:update')
PlayerUpdateResult(p, pos) ==
    IF p \in DOMAIN players
    THEN [Cur EXCEPT !.players = [players EXCEPT ![p].position = pos,
                                                 ![p].lastUpdate = now],
                     !.out = << Event("player:moved", <<"others", p>>, <<p, pos>>) >>]
    ELSE Cur

PlayerUpdate(p, pos) ==
    /\ p \in EverConnected
    /\ Apply(PlayerUpdateResult(p, pos))

\* handlePlayerLeave, lobby part: the Lobby object after member p is deleted and,
\* if p was the host and members remain, the first remaining member is made host.
LeaveHostMigration(lobby, p) ==
    LET remaining == MapDelete(lobby.players, p) IN
    IF lobby.hostId = p /\ Len(remaining) > 0
    THEN [lobby EXCEPT !.hostId = remaining[1].id,
                       !.players = [remaining EXCEPT ![1].isHost = TRUE]]
    ELSE [lobby EXCEPT !.players = remaining]

\* A removed player's object lives on in the countdown closures that captured it.
FreezeOwner(ivs, p, lobbyId) ==
    [i \in DOMAIN ivs |-> IF ivs[i].owner = p
                          THEN [ivs[i] EXCEPT !.ownerGone = TRUE, !.ownerLobbyId = lobbyId]
                          ELSE ivs[i]]

\* function handlePlayerLeave(playerId), run on the server state `st`.
HandlePlayerLeaveIn(st, p) ==
    IF p \notin DOMAIN st.players THEN st
    ELSE
    LET player == st.players[p]
        l == player.lobbyId
        inLobby == l # Null /\ l \in st.lobbies
        newLobby == LeaveHostMigration(st.lobbyObjects[l], p)
        closes == inLobby /\ st.lobbyObjects[l].hostId = p /\ Len(newLobby.players) = 0
        migrates == inLobby /\ st.lobbyObjects[l].hostId = p /\ Len(newLobby.players) > 0
        objs1 == IF inLobby THEN [st.lobbyObjects EXCEPT ![l] = newLobby]
                 ELSE st.lobbyObjects
        store1 == IF closes THEN st.lobbies \ {l} ELSE st.lobbies
        ivs1 == FreezeOwner(st.intervals, p, l)
        r == player.raceId
        inRaceSession == r # Null /\ r \in DOMAIN st.races
        inBattle == r # Null /\ r \notin DOMAIN st.races /\ r \in DOMAIN st.battles
        newBattlePlayers == Drop(st.battles[r].players, p)
        outLobby ==
            IF inLobby
            THEN << Event("lobby:playerLeft", <<"lobby", l>>, <<p>>) >>
                 \o (IF migrates
                     THEN << Event("lobby:newHost", <<"lobby", l>>, <<newLobby.hostId>>) >>
                     ELSE IF closes THEN << Event("lobby:removed", ToAll, <<l>>) >>
                     ELSE <<>>)
                 \o << BroadcastPortals(objs1, store1) >>
            ELSE <<>>
        outSession ==
            IF inRaceSession THEN << Event("race:playerLeft", <<"race", r>>, <<p>>) >>
            ELSE IF inBattle THEN << Event("battle:playerLeft", <<"battle", r>>, <<p>>) >>
            ELSE <<>>
    IN
    [st EXCEPT
        !.lobbies = store1,
        !.intervals = ivs1,
        !.lobbyObjects = Reachable(objs1, store1, ivs1),
        !.races = IF inRaceSession THEN [st.races EXCEPT ![r].players = @ \ {p}]
                  ELSE st.races,
        !.battles = IF inBattle
                    THEN IF DOMAIN newBattlePlayers = {}
                         THEN Drop(st.battles, r)
                         ELSE [st.battles EXCEPT ![r].players = newBattlePlayers]
                    ELSE st.battles,
        !.players = Drop(st.players, p),
        !.out = st.out \o outLobby \o outSession
                \o << Event("player:left", ToAll, <<p>>) >>]

\* handlePlayerLeave called by a handler or a timer in the current state.
HandlePlayerLeave(p) == HandlePlayerLeaveIn(Cur, p)

\* socket.on('disconnect')
DisconnectResult(p) == HandlePlayerLeave(p)

Disconnect(p) ==
    /\ p \in DOMAIN players
    /\ Apply(DisconnectResult(p))

\* The inactive-player sweep: a player silent for more than 10 s is removed by
\* handlePlayerLeave; the socket itself stays open, and whatever it sends later
\* finds no PlayerState.
TimeoutResult(p) == HandlePlayerLeave(p)

Timeout(p) ==
    /\ p \in DOMAIN players
    /\ Apply(TimeoutResult(p))

\* A sweep whose threshold is one sweep period too long.
IsQuietLate(t, player) == t - player.lastUpdate > QuietInterval + SweepPeriod

\* `now - player.lastUpdate > 10000`
IsQuiet(t, player) == t - player.lastUpdate > QuietInterval

QuietPlayers(st) == {p \in DOMAIN st.players : IsQuiet(st.now, st.players[p])}

\* The loop of the sweep: handlePlayerLeave for every quiet player, in the order of
\* the players Map (socket ids are set in increasing order). The loop goes on from
\* the state `left` the call has left.
RECURSIVE SweepFrom(_, _)
SweepFrom(st, ids) ==
    IF ids = {} THEN st
    ELSE LET p == CHOOSE x \in ids : \A y \in ids : x <= y
         IN CHOOSE res \in {SweepFrom(left, ids \ {p}) :
                               left \in {HandlePlayerLeaveIn(st, p)}} : TRUE

\* One run of the inactive-player sweep (the setInterval callback, every 5 s) with the
\* clock read: the players it finds quiet are removed, the others are left alone.
SweepResult == SweepFrom(Cur, QuietPlayers(Cur))

Sweep == Apply(SweepResult)

\* Date.now() moves on by one sweep period.
Tick ==
    /\ now < MaxClock * SweepPeriod
    /\ now' = now + SweepPeriod
    /\ UNCHANGED <<players, lobbies, lobbyObjects, intervals, races, battles,
                   pickupTimers, globalScores, nextPlayer, nextLobby, rankings>>

\* The lobby janitor: every lobby that is empty or older than 5 minutes is deleted.
\* Lobby ids are handed out in creation order, so the lobbies older than 5 minutes
\* are the ones up to some id.
ExpiredLobbies(cutoff) ==
    {l \in lobbies : Len(lobbyObjects[l].players) = 0 \/ l <= cutoff}

LobbyJanitorResult(cutoff) ==
    LET gone == ExpiredLobbies(cutoff) IN
    [Cur EXCEPT
        !.lobbies = lobbies \ gone,
        !.lobbyObjects = Reachable(lobbyObjects, lobbies \ gone, intervals),
        !.out = [i \in 1..Cardinality(gone) |->
                    Event("lobby:removed", ToAll,
                          <<CHOOSE l \in gone : Cardinality({x \in gone : x < l}) = i - 1>>)]]

LobbyJanitor(cutoff) ==
    /\ ExpiredLobbies(cutoff) # {}
    /\ Apply(LobbyJanitorResult(cutoff))

\* The empty-race janitor: every race whose active set is empty is deleted.
EmptyRaces == {r \in DOMAIN races : races[r].players = {}}

RaceJanitorResult ==
    [Cur EXCEPT !.races = [r \in (DOMAIN races) \ EmptyRaces |-> races[r]]]

RaceJanitor ==
    /\ EmptyRaces # {}
    /\ Apply(RaceJanitorResult)


\* ------------------------------------------------------------ lobby manager
PortalPositions == {<<0, 350, 0>>}
PickupTypes == {"health", "ammo", "powerup"}
Seeds == {0, 999999}
\* (mode, battleType) as a client sends them; "none" is an absent field.
LobbyKinds == { <<"none", "none">>, <<"race", "none">>, <<"battle", "none">>,
                <<"battle", "deathmatch">>, <<"battle", "ctf">> }

\* `data.mode || 'race'`
NewLobby(id, host, pos, mode, battleType) ==
    [ id |-> id, hostId |-> host,
      players |-> << [id |-> host, isHost |-> TRUE, ready |-> TRUE] >>,
      portalPosition |-> pos, countdown |-> NoCountdown, raceStarted |-> FALSE,
      mode |-> IF mode = "none" THEN "race" ELSE mode, battleType |-> battleType ]

\* `if (!player || player.lobbyId) return;`
LobbyCreateAllowed(p) == p \in DOMAIN players /\ players[p].lobbyId = Null

\* socket.on('lobby:create')
LobbyCreateResult(p, pos, mode, battleType) ==
    LET id == nextLobby + 1
        objs1 == Put(lobbyObjects, id, NewLobby(id, p, pos, mode, battleType))
    IN
    IF LobbyCreateAllowed(p)
    THEN [Cur EXCEPT !.nextLobby = id,
                     !.lobbyObjects = objs1,
                     !.lobbies = lobbies \cup {id},
                     !.players = [players EXCEPT ![p].lobbyId = id],
                     !.out = << Event("lobby:created", ToSocket(p), <<id>>),
                                BroadcastPortals(objs1, lobbies \cup {id}) >>]
    ELSE Cur

LobbyCreate(p, pos, mode, battleType) ==
    /\ p \in EverConnected
    /\ LobbyCreateAllowed(p) => nextLobby < MaxLobbies
    /\ Apply(LobbyCreateResult(p, pos, mode, battleType))

\* A lobby:join that looks the lobby up and never asks whether it has started.
LobbyJoinableIfStored(l) == l \in lobbies

\* `if (!lobby || lobby.raceStarted)`, negated
LobbyJoinable(l) == l \in lobbies /\ ~lobbyObjects[l].raceStarted

\* socket.on('lobby:join'): `l` is the lobby id the client names.
LobbyJoinResult(p, l) ==
    LET objs1 == [lobbyObjects EXCEPT ![l].players =
                      MapSet(@, [id |-> p, isHost |-> FALSE, ready |-> FALSE])]
    IN
    IF p \notin DOMAIN players \/ players[p].lobbyId # Null THEN Cur
    ELSE IF ~LobbyJoinable(l)
    THEN [Cur EXCEPT !.out = << Event("lobby:error", ToSocket(p), <<>>) >>]
    ELSE [Cur EXCEPT !.lobbyObjects = objs1,
                     !.players = [players EXCEPT ![p].lobbyId = l],
                     !.out = << Event("lobby:joined", ToSocket(p), <<l>>),
                                Event("lobby:playerJoined", <<"others", l>>, <<p>>),
                                BroadcastPortals(objs1, lobbies) >>]

LobbyJoin(p, l) ==
    /\ p \in EverConnected
    /\ Apply(LobbyJoinResult(p, l))

\* socket.on('lobby:ready')
LobbyReadyResult(p, ready) ==
    IF /\ p \in DOMAIN players
       /\ players[p].lobbyId # Null
       /\ players[p].lobbyId \in lobbies
       /\ p \in MemberIds(lobbyObjects[players[p].lobbyId])
    THEN LET l == players[p].lobbyId
             i == MemberIndex(lobbyObjects[l], p)
         IN [Cur EXCEPT !.lobbyObjects = [lobbyObjects EXCEPT ![l].players[i].ready = ready],
                        !.out = << Event("lobby:playerReady", <<"lobby", l>>,
                                         <<p, ready>>) >>]
    ELSE Cur

LobbyReady(p, ready) ==
    /\ p \in EverConnected
    /\ Apply(LobbyReadyResult(p, ready))

\* A lobby:start guard that lets any member of a stored lobby start it.
LobbyStartAllowedForMember(p) ==
    /\ p \in DOMAIN players
    /\ players[p].lobbyId # Null
    /\ players[p].lobbyId \in lobbies

\* `if (!player || !player.lobbyId) return; ... if (!lobby || lobby.hostId !== socket.id)
\* return;`, negated
LobbyStartAllowed(p) ==
    /\ p \in DOMAIN players
    /\ players[p].lobbyId # Null
    /\ players[p].lobbyId \in lobbies
    /\ lobbyObjects[players[p].lobbyId].hostId = p

\* The closure of a countdown interval captures the Lobby object and the caller's
\* PlayerState object. `roster` is a history field: the lobby's members at the moment
\* of the lobby:start call that armed the interval.
NewInterval(l, p) ==
    [ lobby |-> l, owner |-> p, ownerGone |-> FALSE, ownerLobbyId |-> Null,
      roster |-> MemberIds(lobbyObjects[l]) ]

\* socket.on('lobby:start')
LobbyStartResult(p) ==
    IF LobbyStartAllowed(p)
    THEN LET l == players[p].lobbyId IN
         [Cur EXCEPT !.lobbyObjects = [lobbyObjects EXCEPT ![l].countdown = CountdownStart],
                     !.intervals = Append(intervals, NewInterval(l, p)),
                     !.out = << Event("lobby:countdown", <<"lobby", l>>,
                                      <<CountdownStart>>) >>]
    ELSE Cur

LobbyStart(p) ==
    /\ p \in EverConnected
    /\ LobbyStartAllowed(p) => Len(intervals) < MaxIntervals
    /\ Apply(LobbyStartResult(p))

\* A start-transition that moves only the registered members marked ready.
IsLiveAndReady(m) == m.id \in DOMAIN players /\ m.ready

\* The members of a lobby that are still registered, in insertion order
\* (`const p = players.get(pid); if (p) { ... }`).
IsLive(m) == m.id \in DOMAIN players
LiveMembers(lobby) == SelectSeq(lobby.players, IsLive)

NewHistoryEntry(pid) ==
    [ id |-> pid, checkpoints |-> 0, finished |-> FALSE, active |-> TRUE,
      lastCheckpointTime |-> now, fingerprint |-> players[pid].fingerprint ]

\* The RaceSession a race lobby's countdown creates.
NewRace(lobby) ==
    LET live == LiveMembers(lobby) IN
    [ id |-> lobby.id,
      players |-> {live[i].id : i \in DOMAIN live},
      history |-> [i \in DOMAIN live |-> NewHistoryEntry(live[i].id)] ]

StartPosition(portal) == <<portal[1], portal[2], portal[3] + StartOffsetZ>>

\* The PlayerState of every live member after being moved into session lobby.id.
MovedPlayers(lobby, resetCheckpoints) ==
    LET live == LiveMembers(lobby)
        ids == {live[i].id : i \in DOMAIN live}
    IN [q \in DOMAIN players |->
          IF q \in ids
          THEN [players[q] EXCEPT !.inRace = TRUE, !.raceId = lobby.id, !.lobbyId = Null,
                                  !.raceCheckpoints = IF resetCheckpoints THEN 0 ELSE @]
          ELSE players[q]]

\* startBattle: teams alternate blue, red, blue, ... over the live members in CTF.
TeamOf(mode, k) == IF mode = "ctf" THEN (IF k % 2 = 1 THEN "blue" ELSE "red") ELSE "none"

NewBattlePlayer(pid, team) ==
    [ id |-> pid, position |-> players[pid].position, hp |-> StartHp, maxHp |-> StartHp,
      isDead |-> FALSE, team |-> team, ammo |-> StartAmmo, killCount |-> 0,
      deathCount |-> 0 ]

NewFlag(portal) ==
    [ position |-> <<portal[1], portal[2] + FlagLift, portal[3]>>,
      carrierId |-> Null,
      homeBase |-> [ red |-> <<portal[1] - BaseOffset, portal[2], portal[3]>>,
                     blue |-> <<portal[1] + BaseOffset, portal[2], portal[3]>> ] ]

\* battle.flag of a deathmatch (undefined): never read, hasFlag is FALSE.
NoFlag == [ position |-> <<0, 0, 0>>, carrierId |-> Null,
            homeBase |-> [red |-> <<0, 0, 0>>, blue |-> <<0, 0, 0>>] ]

\* `lobby.battleType || 'deathmatch'`
BattleModeOf(lobby) == IF lobby.battleType = "none" THEN "deathmatch" ELSE lobby.battleType

\* The BattleSession startBattle creates; `types` are the random pickup types.
NewBattle(lobby, types) ==
    LET live == LiveMembers(lobby)
        mode == BattleModeOf(lobby)
        ids == {live[i].id : i \in DOMAIN live}
        idx(pid) == CHOOSE i \in DOMAIN live : live[i].id = pid
    IN
    [ id |-> lobby.id, mode |-> mode,
      players |-> [pid \in ids |-> NewBattlePlayer(pid, TeamOf(mode, idx(pid)))],
      pickups |-> [k \in 1..MaxPickups |-> [type |-> types[k], active |-> TRUE]],
      scores |-> IF mode = "ctf" THEN [red |-> 0, blue |-> 0] ELSE [pid \in ids |-> 0],
      hasFlag |-> mode = "ctf",
      flag |-> IF mode = "ctf" THEN NewFlag(lobby.portalPosition) ELSE NoFlag ]

\* The room an interval's countdown broadcast goes to: `lobby:${player.lobbyId}`,
\* read from the captured PlayerState object at the time of the tick.
IntervalRoom(iv) ==
    <<"lobby", IF iv.ownerGone THEN iv.ownerLobbyId ELSE players[iv.owner].lobbyId>>

\* An interval that stops only when lobby.countdown is null.
CountdownIdleIfNull(lobby) == lobby.countdown = NoCountdown

\* `if (!lobby.countdown)`: null and 0 are both falsy.
CountdownIdle(lobby) == lobby.countdown = NoCountdown \/ lobby.countdown = 0

\* One firing of a countdown interval (the setInterval callback of lobby:start).
CountdownTickResult(i, seed, types) ==
    LET iv == intervals[i]
        l == iv.lobby
        lobby == lobbyObjects[l]
        ivs1 == SeqRemoveAt(intervals, i)
        started == [lobby EXCEPT !.countdown = @ - 1, !.raceStarted = TRUE]
        objsStarted == [lobbyObjects EXCEPT ![l] = started]
    IN
    IF CountdownIdle(lobby)
    THEN [Cur EXCEPT !.intervals = ivs1,
                     !.lobbyObjects = Reachable(lobbyObjects, lobbies, ivs1)]
    ELSE IF lobby.countdown - 1 > 0
    THEN [Cur EXCEPT !.lobbyObjects = [lobbyObjects EXCEPT ![l].countdown = @ - 1],
                     !.out = << Event("lobby:countdown", IntervalRoom(iv),
                                      <<lobby.countdown - 1>>) >>]
    ELSE IF lobby.mode = "battle"
    THEN [Cur EXCEPT !.intervals = ivs1,
                     !.lobbyObjects = Reachable(objsStarted, lobbies, ivs1),
                     !.battles = Put(battles, l, NewBattle(lobby, types)),
                     !.players = MovedPlayers(lobby, FALSE),
                     !.out = << Event("battle:start", <<"battle", l>>,
                                      <<l, BattleModeOf(lobby)>>),
                                BroadcastPortals(objsStarted, lobbies) >>]
    ELSE [Cur EXCEPT !.intervals = ivs1,
                     !.lobbyObjects = Reachable(objsStarted, lobbies, ivs1),
                     !.races = Put(races, l, NewRace(lobby)),
                     !.players = MovedPlayers(lobby, TRUE),
                     !.out = << Event("race:start", <<"race", l>>,
                                      <<l, seed, StartPosition(lobby.portalPosition),
                                        NewRace(lobby).players>>),
                                BroadcastPortals(objsStarted, lobbies) >>]

CountdownTick(i, seed, types) ==
    /\ i \in DOMAIN intervals
    /\ Apply(CountdownTickResult(i, seed, types))

\* A lobby:leave that hands the lobby to the member that joined last.
LobbyLeaveHostMigrationLast(lobby, p) ==
    LET remaining == MapDelete(lobby.players, p) IN
    IF lobby.hostId = p /\ Len(remaining) > 0
    THEN [lobby EXCEPT !.hostId = remaining[Len(remaining)].id,
                       !.players = [remaining EXCEPT ![Len(remaining)].isHost = TRUE]]
    ELSE [lobby EXCEPT !.players = remaining]

\* socket.on('lobby:leave'), lobby part: the Lobby object after the caller is
\* deleted and, if the caller was host and members remain, the host is reassigned.
LobbyLeaveHostMigration(lobby, p) ==
    LET remaining == MapDelete(lobby.players, p) IN
    IF lobby.hostId = p /\ Len(remaining) > 0
    THEN [lobby EXCEPT !.hostId = remaining[1].id,
                       !.players = [remaining EXCEPT ![1].isHost = TRUE]]
    ELSE [lobby EXCEPT !.players = remaining]

\* socket.on('lobby:leave')
LobbyLeaveResult(p) ==
    IF p \notin DOMAIN players \/ players[p].lobbyId = Null THEN Cur
    ELSE LET l == players[p].lobbyId
             inStore == l \in lobbies
             newLobby == LobbyLeaveHostMigration(lobbyObjects[l], p)
             wasHost == inStore /\ lobbyObjects[l].hostId = p
             closes == wasHost /\ Len(newLobby.players) = 0
             objs1 == IF inStore THEN [lobbyObjects EXCEPT ![l] = newLobby]
                      ELSE lobbyObjects
             store1 == IF closes THEN lobbies \ {l} ELSE lobbies
         IN
         [Cur EXCEPT
             !.lobbies = store1,
             !.lobbyObjects = Reachable(objs1, store1, intervals),
             !.players = [players EXCEPT ![p].lobbyId = Null],
             !.out = IF inStore
                     THEN << Event("lobby:playerLeft", <<"lobby", l>>, <<p>>) >>
                          \o (IF wasHost /\ ~closes
                              THEN << Event("lobby:newHost", <<"lobby", l>>,
                                            <<newLobby.hostId>>) >>
                              ELSE IF closes
                              THEN << Event("lobby:removed", ToAll, <<l>>) >>
                              ELSE <<>>)
                          \o << BroadcastPortals(objs1, store1) >>
                     ELSE <<>>]

LobbyLeave(p) ==
    /\ p \in EverConnected
    /\ Apply(LobbyLeaveResult(p))


\* ------------------------------------------------------ race session engine
HasEntry(history, p) == \E i \in DOMAIN history : history[i].id = p
EntryIndex(history, p) == CHOOSE i \in DOMAIN history : history[i].id = p
EntryOf(history, p) == history[EntryIndex(history, p)]

\* A race:checkpoint that counts the reports instead of storing the reported count.
CountedUp(entry, n) == entry.checkpoints + 1

\* `participant.checkpoints = data.checkpoints`
ReportedCount(entry, n) == n

\* socket.on('race:checkpoint'): `n` is the count the client reports, `t` the value
\* Date.now() returns.
RaceCheckpointResult(p, n, t) ==
    IF p \notin DOMAIN players \/ players[p].raceId = Null THEN Cur
    ELSE LET r == players[p].raceId
             recorded == r \in DOMAIN races /\ HasEntry(races[r].history, p)
         IN [Cur EXCEPT
                !.players = [players EXCEPT ![p].raceCheckpoints = n],
                !.races = IF recorded
                          THEN [races EXCEPT ![r].history[EntryIndex(races[r].history, p)] =
                                   [@ EXCEPT !.checkpoints =
                                                  ReportedCount(EntryOf(races[r].history, p), n),
                                              !.lastCheckpointTime = t]]
                          ELSE races,
                !.now = IF recorded THEN t ELSE now,
                !.out = << Event("race:update", <<"race", r>>, <<p, n>>) >>]

RaceCheckpoint(p, n, t) ==
    /\ p \in EverConnected
    /\ t \in {now, now + 1}
    /\ t <= MaxTime
    /\ Apply(RaceCheckpointResult(p, n, t))

\* The comparator of race:leave's sort: checkpoints descending, then time ascending.
CompareLeave(a, b) ==
    IF b.checkpoints # a.checkpoints THEN b.checkpoints - a.checkpoints
    ELSE a.lastCheckpointTime - b.lastCheckpointTime

\* A race:win comparator that never looks at the finished flag.
CompareWinByCount(a, b) ==
    IF b.checkpoints # a.checkpoints THEN b.checkpoints - a.checkpoints
    ELSE a.lastCheckpointTime - b.lastCheckpointTime

\* The comparator of race:win's sort: finished first, then as above.
CompareWin(a, b) ==
    IF a.finished /\ ~b.finished THEN -1
    ELSE IF ~a.finished /\ b.finished THEN 1
    ELSE IF b.checkpoints # a.checkpoints THEN b.checkpoints - a.checkpoints
    ELSE a.lastCheckpointTime - b.lastCheckpointTime

Compare(kind, a, b) == IF kind = "win" THEN CompareWin(a, b) ELSE CompareLeave(a, b)

\* Array.prototype.sort is stable: equal entries keep their Map insertion order.
InsertSorted(kind, e, s) ==
    LET pos == Cardinality({i \in DOMAIN s : Compare(kind, s[i], e) <= 0})
    IN SubSeq(s, 1, pos) \o <<e>> \o SubSeq(s, pos + 1, Len(s))

RECURSIVE StableSort(_, _)
StableSort(kind, s) ==
    IF Len(s) = 0 THEN <<>>
    ELSE InsertSorted(kind, s[Len(s)], StableSort(kind, SubSeq(s, 1, Len(s) - 1)))

\* finalStandings of race:leave: rank i + 1 in sorted order.
LeaveStandings(history) ==
    LET sorted == StableSort("leave", history) IN
    [i \in DOMAIN sorted |-> [id |-> sorted[i].id, checkpoints |-> sorted[i].checkpoints,
                              rank |-> i]]

\* finalStandings of race:win: a finished entry is displayed with 20 checkpoints.
WinStandings(history) ==
    LET sorted == StableSort("win", history) IN
    [i \in DOMAIN sorted |->
        [id |-> sorted[i].id,
         checkpoints |-> IF sorted[i].finished THEN DisplayCheckpoints
                         ELSE sorted[i].checkpoints,
         rank |-> i]]

NumAwards == Len(PointsAward)

\* One iteration of race:leave's award loop: only a registered player in the top 3
\* is credited, under the fingerprint of its PlayerState.
AwardLeaveStep(st, acc) ==
    IF st.rank <= NumAwards /\ st.id \in DOMAIN acc.pl /\ acc.pl[st.id].fingerprint # Null
    THEN LET fp == acc.pl[st.id].fingerprint
             newScore == SavedScore(acc.gs, fp) + PointsAward[st.rank]
         IN [ gs |-> Put(acc.gs, fp, newScore),
              pl |-> [acc.pl EXCEPT ![st.id].score = newScore],
              out |-> Append(acc.out, Event("score:update", ToSocket(st.id), <<newScore>>)),
              awarded |-> Append(acc.awarded, st.id) ]
    ELSE acc

RECURSIVE AwardLeave(_, _, _)
AwardLeave(standings, i, acc) ==
    IF i > Len(standings) THEN acc
    ELSE AwardLeave(standings, i + 1, AwardLeaveStep(standings[i], acc))

\* One iteration of race:win's award loop: every participant is credited, under the
\* fingerprint of its history entry; a registered player's mirror is updated.
AwardWinStep(st, history, acc) ==
    LET fp == IF HasEntry(history, st.id) THEN EntryOf(history, st.id).fingerprint
              ELSE Null
        points == ParticipationPoint
                  + (IF st.rank <= NumAwards THEN PointsAward[st.rank] ELSE 0)
        newScore == SavedScore(acc.gs, fp) + points
    IN IF fp # Null
       THEN [ gs |-> Put(acc.gs, fp, newScore),
              pl |-> IF st.id \in DOMAIN acc.pl
                     THEN [acc.pl EXCEPT ![st.id].score = newScore] ELSE acc.pl,
              out |-> IF st.id \in DOMAIN acc.pl
                      THEN Append(acc.out,
                                  Event("score:update", ToSocket(st.id), <<newScore>>))
                      ELSE acc.out,
              awarded |-> Append(acc.awarded, st.id) ]
       ELSE acc

RECURSIVE AwardWin(_, _, _, _)
AwardWin(standings, history, i, acc) ==
    IF i > Len(standings) THEN acc
    ELSE AwardWin(standings, history, i + 1, AwardWinStep(standings[i], history, acc))

AwardStart == [gs |-> globalScores, pl |-> players, out |-> <<>>, awarded |-> <<>>]

\* The history variable: one more ranking run for race r over `standings`,
\* crediting the ids of `awarded` in order.
RecordRanking(r, standings, awarded) ==
    LET old == IF r \in DOMAIN rankings THEN rankings[r]
               ELSE [runs |-> 0, ranked |-> {}, awards |-> <<>>]
    IN Put(rankings, r, [ runs |-> old.runs + 1,
                          ranked |-> {standings[i].id : i \in DOMAIN standings},
                          awards |-> old.awards \o awarded ])

\* race:leave marks the caller's history entry inactive and overwrites its count
\* with the PlayerState's raceCheckpoints.
HistoryAfterLeave(history, p, checkpoints) ==
    [i \in DOMAIN history |->
        IF history[i].id = p
        THEN [history[i] EXCEPT !.active = FALSE, !.checkpoints = checkpoints]
        ELSE history[i]]

\* `races.delete(player.raceId)` at the end of race:leave's ranking
RacesAfterLeaveRanking(r) == Drop(races, r)

\* The caller's PlayerState at the end of race:leave.
LeftRace(player) == [player EXCEPT !.inRace = FALSE, !.raceId = Null, !.raceCheckpoints = 0]

\* socket.on('race:leave')
RaceLeaveResult(p) ==
    IF p \notin DOMAIN players \/ players[p].raceId = Null THEN Cur
    ELSE
    LET player == players[p]
        r == player.raceId
    IN
    IF r \notin DOMAIN races
    THEN [Cur EXCEPT !.players = [players EXCEPT ![p] = LeftRace(player)]]
    ELSE
    LET active == races[r].players \ {p}
        history == HistoryAfterLeave(races[r].history, p, player.raceCheckpoints)
        standings == LeaveStandings(history)
        res == AwardLeave(standings, 1, AwardStart)
        ended == SelectSeq([i \in DOMAIN standings |->
                               Event("race:ended", ToSocket(standings[i].id), standings)],
                           LAMBDA e : e.to[2] \in DOMAIN players)
        leftMsg == << Event("race:playerLeft", <<"race", r>>, <<p, player.raceCheckpoints>>) >>
    IN
    IF active = {}
    THEN [Cur EXCEPT !.globalScores = res.gs,
                     !.players = [res.pl EXCEPT ![p] = LeftRace(res.pl[p])],
                     !.races = RacesAfterLeaveRanking(r),
                     !.rankings = RecordRanking(r, standings, res.awarded),
                     !.out = leftMsg \o res.out \o ended]
    ELSE [Cur EXCEPT !.races = [races EXCEPT ![r].players = active, ![r].history = history],
                     !.players = [players EXCEPT ![p] = LeftRace(player)],
                     !.out = leftMsg]

RaceLeave(p) ==
    /\ p \in EverConnected
    /\ Apply(RaceLeaveResult(p))

\* A race:win that ranks the history as it stands, the winner's entry unmarked.
HistoryUnmarked(history, p) == history

\* race:win marks the caller's history entry finished with the sentinel count.
HistoryAfterWin(history, p) ==
    [i \in DOMAIN history |->
        IF history[i].id = p
        THEN [history[i] EXCEPT !.finished = TRUE, !.checkpoints = WinCheckpoints]
        ELSE history[i]]

\* race:win up to the end of its award loop: the ranking over the whole history.
RaceWinRanking(p) ==
    LET r == players[p].raceId
        history == HistoryAfterWin(races[r].history, p)
        standings == WinStandings(history)
        res == AwardWin(standings, history, 1, AwardStart)
    IN
    [Cur EXCEPT
        !.globalScores = res.gs,
        !.players = res.pl,
        !.races = [races EXCEPT ![r].history = history],
        !.rankings = RecordRanking(r, standings, res.awarded),
        !.out = << Event("race:ended", <<"race", r>>, standings) >> \o res.out]

\* A race:win that stops after its award loop: the racers keep their raceId and the
\* session stays in the store.
RaceWinCleanupSkipped(res, r) == res

\* The end of race:win, "Clean up race players" and `races.delete(race.id)`, applied
\* to the state `res` the ranking left.
RaceWinCleanup(res, r) ==
    [res EXCEPT
        !.players = [q \in DOMAIN res.players |->
                        IF q \in res.races[r].players
                        THEN [res.players[q] EXCEPT !.inRace = FALSE, !.raceId = Null,
                                                    !.lobbyId = Null, !.raceCheckpoints = 0]
                        ELSE res.players[q]],
        !.races = Drop(res.races, r)]

\* socket.on('race:win')
RaceWinResult(p) ==
    IF p \notin DOMAIN players \/ players[p].raceId = Null
       \/ players[p].raceId \notin DOMAIN races
    THEN Cur
    ELSE RaceWinCleanup(RaceWinRanking(p), players[p].raceId)

RaceWin(p) ==
    /\ p \in EverConnected
    /\ Apply(RaceWinResult(p))

\* ---------------------------------------------------- battle session engine
\* Math.sqrt(dx^2 + dy^2 + dz^2) < radius, compared as squares (integer coordinates).
DistSq(a, b) ==
    (a[1] - b[1]) * (a[1] - b[1]) + (a[2] - b[2]) * (a[2] - b[2])
    + (a[3] - b[3]) * (a[3] - b[3])
Within(a, b, radius) == DistSq(a, b) < radius * radius

\* `players.get(socket.id)`, `player.raceId`, `battles.get(player.raceId)` all found.
InBattle(p) ==
    /\ p \in DOMAIN players
    /\ players[p].raceId # Null
    /\ players[p].raceId \in DOMAIN battles

\* A battle:shoot that never looks at the ammo.
AmmoIgnored(bp) == FALSE

\* `battlePlayer.ammo <= 0`
OutOfAmmo(bp) == bp.ammo <= 0

\* socket.on('battle:shoot')
BattleShootResult(p) ==
    IF ~InBattle(p) THEN Cur
    ELSE LET b == players[p].raceId
             battle == battles[b]
         IN
         IF p \notin DOMAIN battle.players \/ battle.players[p].isDead
            \/ OutOfAmmo(battle.players[p])
         THEN Cur
         ELSE [Cur EXCEPT
                  !.battles = [battles EXCEPT ![b].players[p].ammo = @ - 1],
                  !.out = << Event("battle:projectile", <<"battle", b>>, <<p>>),
                             Event("battle:ammo", ToSocket(p),
                                   <<battle.players[p].ammo - 1>>) >>]

\* battle:hit, `if (!shooter || ...) return; ... if (!target || target.isDead) return;`,
\* negated: the hit is applied.
HitApplies(p, target) ==
    /\ InBattle(p)
    /\ target \in DOMAIN battles[players[p].raceId].players
    /\ ~battles[players[p].raceId].players[target].isDead

\* A hit that takes the damage off the target's hp without a floor.
HpUnclamped(hp, damage) == hp - damage

\* `target.hp = Math.max(0, target.hp - data.damage)`
HpAfterHit(hp, damage) == Max(0, hp - damage)

\* A kill that is counted for the killer but not entered in the score table.
ScoreUncounted(scores, p) == scores

\* `battle.scores[socket.id] = (battle.scores[socket.id] || 0) + 1`
ScoreAfterKill(scores, p) ==
    Put(scores, p, (IF p \in DOMAIN scores THEN scores[p] ELSE 0) + 1)

\* socket.on('battle:hit')
BattleHitResult(p, target, damage) ==
    IF ~HitApplies(p, target) THEN Cur
    ELSE
    LET b == players[p].raceId
        battle == battles[b]
        hp1 == HpAfterHit(battle.players[target].hp, damage)
        dies == hp1 <= 0
        hurt == [battle.players EXCEPT ![target].hp = hp1]
        dead == [hurt EXCEPT ![target].isDead = TRUE, ![target].deathCount = @ + 1]
        credited == p \in DOMAIN battle.players
        killed == IF credited THEN [dead EXCEPT ![p].killCount = @ + 1] ELSE dead
        scores1 == IF credited /\ battle.mode = "deathmatch"
                   THEN ScoreAfterKill(battle.scores, p)
                   ELSE battle.scores
        drops == battle.hasFlag /\ battle.flag.carrierId = target
        flag1 == IF drops
                 THEN [battle.flag EXCEPT !.carrierId = Null,
                                          !.position = battle.players[target].position]
                 ELSE battle.flag
        damageMsg == Event("battle:damage", <<"battle", b>>, <<target, hp1, damage, p>>)
    IN
    IF dies
    THEN [Cur EXCEPT
             !.battles = [battles EXCEPT ![b].players = killed, ![b].scores = scores1,
                                         ![b].flag = flag1],
             !.out = << damageMsg >>
                     \o (IF drops
                         THEN << Event("battle:flagUpdate", <<"battle", b>>, flag1) >>
                         ELSE <<>>)
                     \o << Event("battle:kill", <<"battle", b>>, <<target, p, scores1>>) >>]
    ELSE [Cur EXCEPT !.battles = [battles EXCEPT ![b].players = hurt],
                     !.out = << damageMsg >>]

\* A respawn that keeps the ammo the player died with.
AmmoKept(bp) == bp.ammo

\* `battlePlayer.ammo = 20`
AmmoAfterRespawn(bp) == StartAmmo

\* socket.on('battle:respawn'): `spawn` is the random spawn point.
BattleRespawnResult(p, spawn) ==
    IF ~InBattle(p) THEN Cur
    ELSE LET b == players[p].raceId
             battle == battles[b]
         IN
         IF p \notin DOMAIN battle.players \/ ~battle.players[p].isDead THEN Cur
         ELSE [Cur EXCEPT
                  !.battles = [battles EXCEPT
                                  ![b].players[p] =
                                      [@ EXCEPT !.isDead = FALSE, !.hp = battle.players[p].maxHp,
                                                !.ammo = AmmoAfterRespawn(battle.players[p])]],
                  !.out = << Event("battle:respawned", <<"battle", b>>,
                                   <<p, spawn, battle.players[p].maxHp,
                                     AmmoAfterRespawn(battle.players[p])>>) >>]

\* A battle:pickup that never looks at the pickup's active flag.
PickupActiveIgnored(b, k) == TRUE

\* `pickup.active`
PickupActive(b, k) == battles[b].pickups[k].active

\* battle:pickup, the guards negated: pickup k is collected by p.
PickupApplies(p, k) ==
    /\ InBattle(p)
    /\ k \in DOMAIN battles[players[p].raceId].pickups
    /\ PickupActive(players[p].raceId, k)
    /\ p \in DOMAIN battles[players[p].raceId].players
    /\ ~battles[players[p].raceId].players[p].isDead

\* The collector after the pickup's effect.
PickupEffect(bp, type) ==
    IF type = "health" THEN [bp EXCEPT !.hp = Min(bp.maxHp, bp.hp + HealthBoost)]
    ELSE IF type = "ammo" THEN [bp EXCEPT !.ammo = @ + AmmoBoost]
    ELSE bp

\* The closure of a pickup's respawn timeout captures the battle and the pickup.
NewPickupTimer(b, k) == [battle |-> b, pickup |-> k]

\* socket.on('battle:pickup'): `effect` is the random power-up effect.
BattlePickupResult(p, k, effect) ==
    IF ~PickupApplies(p, k) THEN Cur
    ELSE
    LET b == players[p].raceId
        battle == battles[b]
        type == battle.pickups[k].type
    IN
    [Cur EXCEPT
        !.battles = [battles EXCEPT ![b].players[p] = PickupEffect(@, type),
                                    ![b].pickups[k].active = FALSE],
        !.pickupTimers = Append(pickupTimers, NewPickupTimer(b, k)),
        !.out = (IF type = "powerup"
                 THEN << Event("battle:powerup", ToSocket(p), <<effect>>) >>
                 ELSE <<>>)
                \o << Event("battle:pickupTaken", <<"battle", b>>, <<k, p, type>>) >>]

\* A respawn timeout that takes its battle to be in the store whenever it fires.
BattleAssumedStored(b) == TRUE

\* `battles.has(battle.id)`
BattleStored(b) == b \in DOMAIN battles

\* The setTimeout callback of battle:pickup, 10 s after the collection.
PickupRespawnResult(i) ==
    LET timer == pickupTimers[i]
        b == timer.battle
        rest == SeqRemoveAt(pickupTimers, i)
    IN
    IF BattleStored(b)
    THEN [Cur EXCEPT !.battles = [battles EXCEPT ![b].pickups[timer.pickup].active = TRUE],
                     !.pickupTimers = rest,
                     !.out = << Event("battle:pickupRespawn", <<"battle", b>>,
                                      <<timer.pickup>>) >>]
    ELSE [Cur EXCEPT !.pickupTimers = rest]

\* A battle:flagPickup that never asks whether the flag is carried.
FlagCarriedIgnored(flag) == FALSE

\* `if (battle.flag.carrierId) return;`
FlagCarried(flag) == flag.carrierId # Null

\* socket.on('battle:flagPickup')
BattleFlagPickupResult(p) ==
    IF ~InBattle(p) THEN Cur
    ELSE LET b == players[p].raceId
             battle == battles[b]
             flag1 == [battle.flag EXCEPT !.carrierId = p]
         IN
         IF ~battle.hasFlag THEN Cur
         ELSE IF FlagCarried(battle.flag) THEN Cur
         ELSE IF Within(players[p].position, battle.flag.position, PickupRadius)
         THEN [Cur EXCEPT !.battles = [battles EXCEPT ![b].flag = flag1],
                          !.out = << Event("battle:flagUpdate", <<"battle", b>>, flag1) >>]
         ELSE Cur

\* socket.on('battle:steal')
BattleStealResult(p, target) ==
    IF ~InBattle(p) THEN Cur
    ELSE LET b == players[p].raceId
             battle == battles[b]
             flag1 == [battle.flag EXCEPT !.carrierId = p]
         IN
         IF ~battle.hasFlag \/ battle.flag.carrierId = Null THEN Cur
         ELSE IF battle.flag.carrierId # target THEN Cur
         ELSE IF target \notin DOMAIN players THEN Cur
         ELSE IF Within(players[p].position, players[target].position, StealRadius)
         THEN [Cur EXCEPT !.battles = [battles EXCEPT ![b].flag = flag1],
                          !.out = << Event("battle:flagUpdate", <<"battle", b>>, flag1) >>]
         ELSE Cur

\* A goal that is the scorer's own home base.
OwnBase(flag, team) == IF team = "red" THEN flag.homeBase.red ELSE flag.homeBase.blue

\* `battlePlayer.team === 'red' ? homeBase.blue : homeBase.red`
TargetBase(flag, team) == IF team = "red" THEN flag.homeBase.blue ELSE flag.homeBase.red

\* socket.on('battle:score')
BattleScoreResult(p) ==
    IF ~InBattle(p) THEN Cur
    ELSE LET b == players[p].raceId
             battle == battles[b]
         IN
         IF ~battle.hasFlag THEN Cur
         ELSE IF battle.flag.carrierId # p THEN Cur
         ELSE IF p \notin DOMAIN battle.players \/ battle.players[p].team = "none" THEN Cur
         ELSE IF Within(players[p].position,
                        TargetBase(battle.flag, battle.players[p].team), GoalRadius)
         THEN LET team == battle.players[p].team
                  scores1 == [battle.scores EXCEPT ![team] = @ + 1]
                  flag1 == [battle.flag EXCEPT !.carrierId = Null,
                                               !.position = FlagResetPosition]
              IN [Cur EXCEPT
                     !.battles = [battles EXCEPT ![b].scores = scores1, ![b].flag = flag1],
                     !.out = << Event("battle:scoreUpdate", <<"battle", b>>, scores1),
                                Event("battle:flagUpdate", <<"battle", b>>, flag1) >>]
         ELSE Cur

\* The battle actions. A step that would take a counter past its bound is left out.
Bounded(res) ==
    \A b \in DOMAIN res.battles :
        /\ \A q \in DOMAIN res.battles[b].players :
              /\ res.battles[b].players[q].ammo >= StartAmmo - MaxShots
              /\ res.battles[b].players[q].ammo <= StartAmmo + MaxBoosts * AmmoBoost
              /\ res.battles[b].players[q].deathCount <= MaxDeaths
        /\ res.battles[b].hasFlag =>
              \A t \in DOMAIN res.battles[b].scores : res.battles[b].scores[t] <= MaxGoals

BattleShoot(p) ==
    /\ p \in EverConnected
    /\ Bounded(BattleShootResult(p))
    /\ Apply(BattleShootResult(p))

BattleHit(p, target, damage) ==
    /\ p \in EverConnected
    /\ Bounded(BattleHitResult(p, target, damage))
    /\ Apply(BattleHitResult(p, target, damage))

BattleRespawn(p, spawn) ==
    /\ p \in EverConnected
    /\ Apply(BattleRespawnResult(p, spawn))

BattlePickup(p, k, effect) ==
    /\ p \in EverConnected
    /\ Bounded(BattlePickupResult(p, k, effect))
    /\ Apply(BattlePickupResult(p, k, effect))

PickupRespawn(i) ==
    /\ i \in DOMAIN pickupTimers
    /\ Apply(PickupRespawnResult(i))

BattleFlagPickup(p) ==
    /\ p \in EverConnected
    /\ Apply(BattleFlagPickupResult(p))

BattleSteal(p, target) ==
    /\ p \in EverConnected
    /\ Apply(BattleStealResult(p, target))

BattleScore(p) ==
    /\ p \in EverConnected
    /\ Bounded(BattleScoreResult(p))
    /\ Apply(BattleScoreResult(p))

\* ------------------------------------------------------------ specification
LobbyIds == 1..MaxLobbies
PickupIds == 0..MaxPickups          \* 0 is an id no pickup has
Damages == {50, 100}
Effects == {"rapidfire", "speedboost"}
SpawnPoints == {SpawnPosition}
\* Where a client reports itself: the spawn, the flag's stand, the red base, and a
\* point 18 units from the spawn (between the steal and the pickup radius).
Positions == {<<0, 350, 0>>, <<0, 400, 0>>, <<-200, 350, 0>>, <<0, 368, 0>>}

Next ==
    \/ \E f \in 1..MaxClients : Connect(f)
    \/ \E p \in EverConnected, pos \in Positions : PlayerUpdate(p, pos)
    \/ \E p \in EverConnected : Disconnect(p)
    \/ \E p \in EverConnected : Timeout(p)
    \/ Tick
    \/ Sweep
    \/ \E c \in 0..MaxLobbies : LobbyJanitor(c)
    \/ RaceJanitor
    \/ \E p \in EverConnected, pos \in PortalPositions, k \in LobbyKinds :
          LobbyCreate(p, pos, k[1], k[2])
    \/ \E p \in EverConnected, l \in LobbyIds : LobbyJoin(p, l)
    \/ \E p \in EverConnected, b \in BOOLEAN : LobbyReady(p, b)
    \/ \E p \in EverConnected : LobbyStart(p)
    \/ \E i \in 1..MaxIntervals, seed \in Seeds, types \in [1..MaxPickups -> PickupTypes] :
          CountdownTick(i, seed, types)
    \/ \E p \in EverConnected : LobbyLeave(p)
    \/ \E p \in EverConnected, n \in 0..MaxCheckpoint, t \in 0..MaxTime :
          RaceCheckpoint(p, n, t)
    \/ \E p \in EverConnected : RaceLeave(p)
    \/ \E p \in EverConnected : RaceWin(p)
    \/ \E p \in EverConnected : BattleShoot(p)
    \/ \E p \in EverConnected, target \in EverConnected, d \in Damages :
          BattleHit(p, target, d)
    \/ \E p \in EverConnected, spawn \in SpawnPoints : BattleRespawn(p, spawn)
    \/ \E p \in EverConnected, k \in PickupIds, e \in Effects : BattlePickup(p, k, e)
    \/ \E i \in 1..MaxPickups : PickupRespawn(i)
    \/ \E p \in EverConnected : BattleFlagPickup(p)
    \/ \E p \in EverConnected, target \in EverConnected : BattleSteal(p, target)
    \/ \E p \in EverConnected : BattleScore(p)

Spec == Init /\ [][Next]_vars

\* ---------------------------------------------------------------- scenarios
\* The whole server's state space is beyond exhaustive search; each scenario below
\* is the server driven by a part of its clients' repertoire, small enough to be
\* explored completely. The handlers are the ones above, unchanged.
RaceKinds == { <<"none", "none">>, <<"race", "none">> }
DeathmatchKinds == { <<"battle", "none">>, <<"battle", "deathmatch">> }

\* Two clients, one race lobby: the lobby manager, the race engine, the janitors.
NextRace ==
    \/ \E f \in 1..MaxClients : nextPlayer < DuelPlayers /\ Connect(f)
    \/ \E p \in EverConnected : Disconnect(p)
    \/ \E p \in EverConnected : Timeout(p)
    \/ \E c \in 0..SoloLobbies : LobbyJanitor(c)
    \/ RaceJanitor
    \/ \E p \in EverConnected, pos \in PortalPositions, k \in RaceKinds :
          /\ LobbyCreateAllowed(p) => nextLobby < SoloLobbies
          /\ LobbyCreate(p, pos, k[1], k[2])
    \/ \E p \in EverConnected, l \in LobbyIds : LobbyJoin(p, l)
    \/ \E p \in EverConnected, b \in BOOLEAN : LobbyReady(p, b)
    \/ \E p \in EverConnected : LobbyStart(p)
    \/ \E i \in 1..MaxIntervals, seed \in Seeds, types \in [1..MaxPickups -> {"health"}] :
          CountdownTick(i, seed, types)
    \/ \E p \in EverConnected : LobbyLeave(p)
    \/ \E p \in EverConnected, n \in 0..MaxCheckpoint, t \in 0..MaxTime :
          RaceCheckpoint(p, n, t)
    \/ \E p \in EverConnected : RaceLeave(p)
    \/ \E p \in EverConnected : RaceWin(p)

SpecRace == Init /\ [][NextRace]_vars

\* Three clients of one address, one race lobby: the lobby manager and the registry.
NextLobby ==
    \/ Connect(1)
    \/ \E p \in EverConnected : Disconnect(p)
    \/ \E p \in EverConnected : Timeout(p)
    \/ \E c \in 0..SoloLobbies : LobbyJanitor(c)
    \/ \E p \in EverConnected, pos \in PortalPositions :
          /\ LobbyCreateAllowed(p) => nextLobby < SoloLobbies
          /\ LobbyCreate(p, pos, "race", "none")
    \/ \E p \in EverConnected, l \in LobbyIds : LobbyJoin(p, l)
    \/ \E p \in EverConnected, b \in BOOLEAN : LobbyReady(p, b)
    \/ \E p \in EverConnected :
          /\ LobbyStartAllowed(p) => Len(intervals) < SoloIntervals
          /\ LobbyStart(p)
    \/ \E i \in 1..SoloIntervals, seed \in {0}, types \in [1..MaxPickups -> {"health"}] :
          CountdownTick(i, seed, types)
    \/ \E p \in EverConnected : LobbyLeave(p)

SpecLobby == Init /\ [][NextLobby]_vars

\* Two clients of one address, two race lobbies one after the other.
NextTwoLobbies ==
    \/ nextPlayer < DuelPlayers /\ Connect(1)
    \/ \E p \in EverConnected : Disconnect(p)
    \/ \E c \in 0..MaxLobbies : LobbyJanitor(c)
    \/ RaceJanitor
    \/ \E p \in EverConnected, pos \in PortalPositions : LobbyCreate(p, pos, "race", "none")
    \/ \E p \in EverConnected, l \in LobbyIds : LobbyJoin(p, l)
    \/ \E p \in EverConnected :
          /\ LobbyStartAllowed(p) => Len(intervals) < SoloIntervals
          /\ LobbyStart(p)
    \/ \E i \in 1..SoloIntervals, seed \in {0}, types \in [1..MaxPickups -> {"health"}] :
          CountdownTick(i, seed, types)
    \/ \E p \in EverConnected : LobbyLeave(p)
    \/ \E p \in EverConnected : RaceLeave(p)
    \/ \E p \in EverConnected : RaceWin(p)

SpecTwoLobbies == Init /\ [][NextTwoLobbies]_vars

\* Two clients of one address, one deathmatch lobby: shots, hits, pickups.
NextBattle ==
    \/ nextPlayer < DuelPlayers /\ Connect(1)
    \/ \E p \in EverConnected : Disconnect(p)
    \/ \E p \in EverConnected, pos \in PortalPositions, k \in DeathmatchKinds :
          /\ LobbyCreateAllowed(p) => nextLobby < SoloLobbies
          /\ LobbyCreate(p, pos, k[1], k[2])
    \/ \E p \in EverConnected, l \in 1..SoloLobbies : LobbyJoin(p, l)
    \/ \E p \in EverConnected :
          /\ LobbyStartAllowed(p) => Len(intervals) < SoloIntervals
          /\ LobbyStart(p)
    \/ \E i \in 1..SoloIntervals, seed \in {0}, types \in [1..MaxPickups -> PickupTypes] :
          CountdownTick(i, seed, types)
    \/ \E p \in EverConnected : BattleShoot(p)
    \/ \E p \in EverConnected, target \in EverConnected, d \in Damages :
          BattleHit(p, target, d)
    \/ \E p \in EverConnected, spawn \in SpawnPoints : BattleRespawn(p, spawn)
    \/ \E p \in EverConnected, k \in PickupIds, e \in Effects : BattlePickup(p, k, e)
    \/ \E i \in 1..MaxPickups : PickupRespawn(i)

SpecBattle == Init /\ [][NextBattle]_vars

\* Two clients of one address, one capture-the-flag lobby: the flag's life.
NextCtf ==
    \/ nextPlayer < DuelPlayers /\ Connect(1)
    \/ \E p \in EverConnected, pos \in Positions : PlayerUpdate(p, pos)
    \/ \E p \in EverConnected : Disconnect(p)
    \/ \E p \in EverConnected, pos \in PortalPositions :
          /\ LobbyCreateAllowed(p) => nextLobby < SoloLobbies
          /\ LobbyCreate(p, pos, "battle", "ctf")
    \/ \E p \in EverConnected, l \in 1..SoloLobbies : LobbyJoin(p, l)
    \/ \E p \in EverConnected :
          /\ LobbyStartAllowed(p) => Len(intervals) < SoloIntervals
          /\ LobbyStart(p)
    \/ \E i \in 1..SoloIntervals, seed \in {0}, types \in [1..MaxPickups -> {"health"}] :
          CountdownTick(i, seed, types)
    \/ \E p \in EverConnected, target \in EverConnected : BattleHit(p, target, StartHp)
    \/ \E p \in EverConnected, spawn \in SpawnPoints : BattleRespawn(p, spawn)
    \/ \E p \in EverConnected : BattleFlagPickup(p)
    \/ \E p \in EverConnected, target \in EverConnected : BattleSteal(p, target)
    \/ \E p \in EverConnected : BattleScore(p)

SpecCtf == Init /\ [][NextCtf]_vars

\* The counts the clients of the ranking scenario report: none, one, and one more
\* than the count race:win gives the winner.
RankingCounts == {0, 1, WinCheckpoints + 1}

\* Three clients of one address, one race lobby: checkpoint reports and the rankings.
NextRanking ==
    \/ Connect(1)
    \/ \E p \in EverConnected : Disconnect(p)
    \/ \E p \in EverConnected, pos \in PortalPositions :
          /\ LobbyCreateAllowed(p) => nextLobby < SoloLobbies
          /\ LobbyCreate(p, pos, "race", "none")
    \/ \E p \in EverConnected, l \in 1..SoloLobbies : LobbyJoin(p, l)
    \/ \E p \in EverConnected :
          /\ LobbyStartAllowed(p) => Len(intervals) < SoloIntervals
          /\ LobbyStart(p)
    \/ \E i \in 1..SoloIntervals, seed \in {0}, types \in [1..MaxPickups -> {"health"}] :
          CountdownTick(i, seed, types)
    \/ \E p \in EverConnected, n \in RankingCounts, t \in 0..MaxTime :
          RaceCheckpoint(p, n, t)
    \/ \E p \in EverConnected : RaceLeave(p)
    \/ \E p \in EverConnected : RaceWin(p)

SpecRanking == Init /\ [][NextRanking]_vars

\* Two clients of one address, one race or deathmatch lobby, and the clock: position
\* updates, the inactive-player sweep and explicit disconnects. The sweep's interval
\* fires for ever and time passes, so both are weakly fair; no client has to act.
SweepKinds == { <<"race", "none">>, <<"battle", "deathmatch">> }

NextSweep ==
    \/ nextPlayer < DuelPlayers /\ Connect(1)
    \/ \E p \in EverConnected : PlayerUpdate(p, SpawnPosition)
    \/ \E p \in EverConnected : Disconnect(p)
    \/ Tick
    \/ Sweep
    \/ \E p \in EverConnected, pos \in PortalPositions, k \in SweepKinds :
          /\ LobbyCreateAllowed(p) => nextLobby < SoloLobbies
          /\ LobbyCreate(p, pos, k[1], k[2])
    \/ \E p \in EverConnected, l \in 1..SoloLobbies : LobbyJoin(p, l)
    \/ \E p \in EverConnected :
          /\ LobbyStartAllowed(p) => Len(intervals) < SoloIntervals
          /\ LobbyStart(p)
    \/ \E i \in 1..SoloIntervals, seed \in {0}, types \in [1..MaxPickups -> {"health"}] :
          CountdownTick(i, seed, types)

SpecSweep == Init /\ [][NextSweep]_vars /\ WF_vars(Tick) /\ WF_vars(Sweep)

\* Two clients of one address, one race or deathmatch lobby, and the three timers that
\* fire for ever (the countdown intervals, the lobby janitor, the empty-race janitor),
\* each weakly fair; no client has to act.
CountdownFires ==
    \E i \in 1..SoloIntervals, types \in [1..MaxPickups -> {"health"}] :
        CountdownTick(i, 0, types)
LobbyJanitorFires == \E c \in 0..SoloLobbies : LobbyJanitor(c)

NextJanitor ==
    \/ nextPlayer < DuelPlayers /\ Connect(1)
    \/ \E p \in EverConnected : Disconnect(p)
    \/ LobbyJanitorFires
    \/ RaceJanitor
    \/ \E p \in EverConnected, pos \in PortalPositions, k \in SweepKinds :
          /\ LobbyCreateAllowed(p) => nextLobby < SoloLobbies
          /\ LobbyCreate(p, pos, k[1], k[2])
    \/ \E p \in EverConnected, l \in 1..SoloLobbies : LobbyJoin(p, l)
    \/ \E p \in EverConnected :
          /\ LobbyStartAllowed(p) => Len(intervals) < SoloIntervals
          /\ LobbyStart(p)
    \/ CountdownFires
    \/ \E p \in EverConnected : LobbyLeave(p)
    \/ \E p \in EverConnected : RaceLeave(p)

SpecJanitor ==
    /\ Init /\ [][NextJanitor]_vars
    /\ WF_vars(CountdownFires) /\ WF_vars(LobbyJanitorFires) /\ WF_vars(RaceJanitor)

\* Two clients of one address, one deathmatch lobby: the participants shoot until
\* their ammo is spent, kill each other and respawn. Ammo needs no bound here, a
\* death counter does.
DeathsBounded(res) ==
    \A b \in DOMAIN res.battles :
        \A q \in DOMAIN res.battles[b].players :
            res.battles[b].players[q].deathCount <= MaxDeaths

NextShoot ==
    \/ nextPlayer < DuelPlayers /\ Connect(1)
    \/ \E p \in EverConnected, pos \in PortalPositions :
          /\ LobbyCreateAllowed(p) => nextLobby < SoloLobbies
          /\ LobbyCreate(p, pos, "battle", "deathmatch")
    \/ \E p \in EverConnected, l \in 1..SoloLobbies : LobbyJoin(p, l)
    \/ \E p \in EverConnected :
          /\ LobbyStartAllowed(p) => Len(intervals) < SoloIntervals
          /\ LobbyStart(p)
    \/ \E i \in 1..SoloIntervals, seed \in {0}, types \in [1..MaxPickups -> {"health"}] :
          CountdownTick(i, seed, types)
    \/ \E p \in EverConnected : Apply(BattleShootResult(p))
    \/ \E p \in EverConnected, target \in EverConnected :
          /\ DeathsBounded(BattleHitResult(p, target, StartHp))
          /\ Apply(BattleHitResult(p, target, StartHp))
    \/ \E p \in EverConnected, spawn \in SpawnPoints : BattleRespawn(p, spawn)

SpecShoot == Init /\ [][NextShoot]_vars

\* Two clients of one address, one deathmatch lobby, and a client that sends any
\* integer as damage: a healing amount, nothing, half and all of the hp. The hp a
\* healing hit can build up is capped at MaxExcess times the starting hp above it.
ClientDamages == {-50, 0, 50, 100}

HpCapped(res) ==
    \A b \in DOMAIN res.battles :
        \A q \in DOMAIN res.battles[b].players :
            res.battles[b].players[q].hp <= StartHp + MaxExcess * StartHp

NextDamage ==
    \/ nextPlayer < DuelPlayers /\ Connect(1)
    \/ \E p \in EverConnected, pos \in PortalPositions :
          /\ LobbyCreateAllowed(p) => nextLobby < SoloLobbies
          /\ LobbyCreate(p, pos, "battle", "deathmatch")
    \/ \E p \in EverConnected, l \in 1..SoloLobbies : LobbyJoin(p, l)
    \/ \E p \in EverConnected :
          /\ LobbyStartAllowed(p) => Len(intervals) < SoloIntervals
          /\ LobbyStart(p)
    \/ \E i \in 1..SoloIntervals, seed \in {0}, types \in [1..MaxPickups -> {"health"}] :
          CountdownTick(i, seed, types)
    \/ \E p \in EverConnected, target \in EverConnected, d \in ClientDamages :
          /\ HpCapped(BattleHitResult(p, target, d))
          /\ BattleHit(p, target, d)
    \/ \E p \in EverConnected, spawn \in SpawnPoints : BattleRespawn(p, spawn)
    \/ \E p \in EverConnected, k \in PickupIds, e \in Effects : BattlePickup(p, k, e)
    \/ \E i \in 1..MaxPickups : PickupRespawn(i)

SpecDamage == Init /\ [][NextDamage]_vars

\* ------------------------------------------------------------------ claims
NoDuplicates(s) == \A i, j \in DOMAIN s : i # j => s[i] # s[j]

\* C1: End-of-Race ranking runs at most once for a race session, and no participant
\* is credited twice for the same race, whatever checkpoint, leave, win, disconnect
\* and janitor events follow one another.
C1_RankedOncePerRace ==
    \A r \in DOMAIN rankings :
        /\ rankings[r].runs <= 1
        /\ NoDuplicates(rankings[r].awards)

\* A race of two has been ranked, both participants credited, and its session is gone.
C1_Witness ==
    \E r \in DOMAIN rankings :
        /\ rankings[r].runs = 1
        /\ Len(rankings[r].awards) = 2
        /\ r \notin DOMAIN races

\* No history entry of race r, a session that exists before and after a step, has
\* its checkpoint count lowered by the step.
CheckpointsKept(r) ==
    \A i \in DOMAIN races[r].history, j \in DOMAIN races'[r].history :
        races[r].history[i].id = races'[r].history[j].id
        => races'[r].history[j].checkpoints >= races[r].history[i].checkpoints

\* C2: the checkpoint count of a participant's history entry never decreases, over
\* any sequence of race:checkpoint, race:leave and race:win events.
C2_HistoryMonotonic ==
    [][\A r \in (DOMAIN races) \cap (DOMAIN races') : CheckpointsKept(r)]_vars

\* The sessions that claim player p: the advertised lobbies it is a member of, the
\* races and the battles whose participant set holds it.
SessionsOf(p) ==
    {<<"lobby", l>> : l \in {x \in lobbies : /\ ~lobbyObjects[x].raceStarted
                                             /\ p \in MemberIds(lobbyObjects[x])}}
    \cup {<<"race", r>> : r \in {x \in DOMAIN races : p \in races[x].players}}
    \cup {<<"battle", b>> : b \in {x \in DOMAIN battles : p \in DOMAIN battles[x].players}}

\* C3: every live player is claimed by at most one session: never a lobby member
\* while a participant of a race or battle, never a participant of two sessions.
C3_OneSessionPerPlayer ==
    \A p \in DOMAIN players : Cardinality(SessionsOf(p)) <= 1

\* C4: a CTF flag has at most one carrier whatever flagPickup, steal, score and kill
\* events interleave, and battle:flagPickup changes nothing while a carrier is set.
C4_SingleCarrier ==
    \A b \in DOMAIN battles :
        battles[b].hasFlag =>
            /\ battles[b].flag.carrierId \in {Null} \cup EverConnected
            /\ battles[b].flag.carrierId # Null =>
                  \A p \in EverConnected :
                      (p \in DOMAIN players /\ players[p].raceId = b)
                      => BattleFlagPickupResult(p) = Cur

\* The flag is carried and another participant stands within reach of where it was
\* picked up.
C4_Witness ==
    \E b \in DOMAIN battles, p \in DOMAIN players :
        /\ battles[b].hasFlag
        /\ battles[b].flag.carrierId \notin {Null, p}
        /\ players[p].raceId = b
        /\ Within(players[p].position, battles[b].flag.position, PickupRadius)

\* C5: a collected pickup stays inactive, its respawn timer pending, and until that
\* timer fires every battle:pickup for it, by any participant, is a no-op: no hp or
\* ammo changes and nothing is broadcast. A collection itself leaves the pickup
\* inactive.
C5_NoSecondCollection ==
    \A b \in DOMAIN battles, k \in 1..MaxPickups, p \in DOMAIN players, e \in Effects :
        players[p].raceId = b =>
            IF battles[b].pickups[k].active
            THEN \/ BattlePickupResult(p, k, e) = Cur
                 \/ ~BattlePickupResult(p, k, e).battles[b].pickups[k].active
            ELSE /\ \E i \in DOMAIN pickupTimers :
                       pickupTimers[i].battle = b /\ pickupTimers[i].pickup = k
                 /\ BattlePickupResult(p, k, e) = Cur

\* A health pickup is taken and a living participant short of full hp asks for it.
C5_Witness ==
    \E b \in DOMAIN battles, k \in 1..MaxPickups, p \in DOMAIN players :
        /\ players[p].raceId = b
        /\ p \in DOMAIN battles[b].players
        /\ ~battles[b].players[p].isDead
        /\ battles[b].players[p].hp < battles[b].players[p].maxHp
        /\ battles[b].pickups[k].type = "health"
        /\ ~battles[b].pickups[k].active

\* Participant q of battle b has its dead flag set.
IsDeadIn(b, q) == q \in DOMAIN battles[b].players /\ battles[b].players[q].isDead

\* C6: a dead player neither deals nor receives damage: a battle:hit sent by a dead
\* shooter, or aimed at a dead target, changes nothing.
C6_DeadNeitherDealsNorReceives ==
    \A b \in DOMAIN battles, p \in DOMAIN players, target \in EverConnected, d \in Damages :
        (players[p].raceId = b /\ (IsDeadIn(b, p) \/ IsDeadIn(b, target)))
        => NoChange(BattleHitResult(p, target, d))

\* The member records of lobby l that carry the host flag.
HostRecords(l) ==
    {i \in DOMAIN lobbyObjects[l].players : lobbyObjects[l].players[i].isHost}

\* C7: every lobby in the store has exactly one member record with the host flag,
\* and that member is the lobby's hostId.
C7_ExactlyOneHost ==
    \A l \in lobbies :
        /\ Cardinality(HostRecords(l)) = 1
        /\ \A i \in HostRecords(l) : lobbyObjects[l].players[i].id = lobbyObjects[l].hostId

\* The members of lobby l other than p, in the order they joined.
Others(l, p) == SelectSeq(lobbyObjects[l].players, LAMBDA m : m.id # p)

\* The lobby l as handler result `res` leaves it: its host, and whether the host's
\* member record carries the flag.
HostAfter(res, l) == res.lobbyObjects[l].hostId
HostFlagged(res, l) ==
    \E i \in DOMAIN res.lobbyObjects[l].players :
        /\ res.lobbyObjects[l].players[i].id = HostAfter(res, l)
        /\ res.lobbyObjects[l].players[i].isHost

\* C8: when the host leaves and members remain, the earliest-joined remaining member
\* becomes host, by lobby:leave, by disconnect and by the liveness timeout alike.
C8_EarliestJoinedSucceeds ==
    \A l \in lobbies, p \in DOMAIN players :
        (players[p].lobbyId = l /\ lobbyObjects[l].hostId = p /\ Len(Others(l, p)) > 0)
        => /\ HostAfter(LobbyLeaveResult(p), l) = Others(l, p)[1].id
           /\ HostAfter(DisconnectResult(p), l) = Others(l, p)[1].id
           /\ HostAfter(TimeoutResult(p), l) = Others(l, p)[1].id
           /\ HostFlagged(LobbyLeaveResult(p), l)
           /\ HostFlagged(DisconnectResult(p), l)
           /\ HostFlagged(TimeoutResult(p), l)

\* The host of a lobby of three leaves: the second member succeeds, not the third.
C8_Witness ==
    \E l \in lobbies, p \in DOMAIN players :
        /\ players[p].lobbyId = l
        /\ lobbyObjects[l].hostId = p
        /\ Len(Others(l, p)) = 2
        /\ HostAfter(LobbyLeaveResult(p), l) = Others(l, p)[1].id
        /\ HostAfter(LobbyLeaveResult(p), l) # Others(l, p)[2].id

\* Lobby id l names no lobby of the store, or one that has started.
NotJoinable(l) == l \notin lobbies \/ lobbyObjects[l].raceStarted

LobbyError(p) == << Event("lobby:error", ToSocket(p), <<>>) >>

\* C9, as stated: a registered player's lobby:join naming a lobby that does not exist
\* or has started changes nothing and produces a lobby:error event to the caller and
\* nothing else.
C9_JoinAlwaysAnswered ==
    \A p \in DOMAIN players, l \in LobbyIds :
        NotJoinable(l) =>
            /\ NoChange(LobbyJoinResult(p, l))
            /\ LobbyJoinResult(p, l).out = LobbyError(p)

\* C9, amended: such a lobby:join changes nothing; it produces a lobby:error event to
\* the caller, and nothing else, when the caller is registered and in no lobby, and
\* no event at all otherwise.
C9_JoinRejected ==
    \A p \in EverConnected, l \in LobbyIds :
        NotJoinable(l) =>
            /\ NoChange(LobbyJoinResult(p, l))
            /\ LobbyJoinResult(p, l).out =
                  IF p \in DOMAIN players /\ players[p].lobbyId = Null
                  THEN LobbyError(p) ELSE <<>>

\* A started lobby is still in the store and a registered player in no lobby can
\* ask to join it.
C9_Witness ==
    \E l \in lobbies, p \in DOMAIN players :
        /\ lobbyObjects[l].raceStarted
        /\ players[p].lobbyId = Null
        /\ LobbyJoinResult(p, l).out = LobbyError(p)

\* The participants a ranking of race r has to cover: everyone in its history.
HistoryIds(r) == {races[r].history[i].id : i \in DOMAIN races[r].history}

\* C10: a race session that had participants is removed only after End-of-Race
\* ranking has run over its full history, however its active set became empty.
C10_RankedBeforeRemoval ==
    [][\A r \in (DOMAIN races) \ (DOMAIN races') :
          HistoryIds(r) # {} =>
              /\ r \in DOMAIN rankings'
              /\ rankings'[r].ranked = HistoryIds(r)]_vars

\* What a ranking owes the participant ranked `rank`: the placement bonus in the
\* leave-triggered ranking, the participation point on top of it in the win-triggered.
PointsOwed(kind, rank) ==
    (IF kind = "win" THEN ParticipationPoint ELSE 0)
    + (IF rank <= NumAwards THEN PointsAward[rank] ELSE 0)

\* The ledger after every standing from the i-th on is credited what it is owed,
\* under the fingerprint of its history entry.
RECURSIVE LedgerCredited(_, _, _, _, _)
LedgerCredited(scores, standings, history, kind, i) ==
    IF i > Len(standings) THEN scores
    ELSE LET fp == EntryOf(history, standings[i].id).fingerprint
             owed == PointsOwed(kind, standings[i].rank)
             scores1 == IF owed > 0 THEN Put(scores, fp, SavedScore(scores, fp) + owed)
                        ELSE scores
         IN LedgerCredited(scores1, standings, history, kind, i + 1)

\* Player p is in a race of the store; its race:leave empties the race's active set.
InStoredRace(p) == players[p].raceId # Null /\ players[p].raceId \in DOMAIN races
LastRacer(p) == InStoredRace(p) /\ races[players[p].raceId].players \ {p} = {}

\* The ledger End-of-Race ranking has to leave when p's race:leave, or p's race:win,
\* triggers it.
LedgerOwedAfterLeave(p) ==
    LET history == HistoryAfterLeave(races[players[p].raceId].history, p,
                                     players[p].raceCheckpoints)
    IN LedgerCredited(globalScores, LeaveStandings(history), history, "leave", 1)
LedgerOwedAfterWin(p) ==
    LET history == HistoryAfterWin(races[players[p].raceId].history, p)
    IN LedgerCredited(globalScores, WinStandings(history), history, "win", 1)

\* C11: End-of-Race ranking credits every awarded participant under the fingerprint
\* of its history entry, registered or not, in the leave-triggered and in the
\* win-triggered ranking.
C11_CreditedByHistoryFingerprint ==
    \A p \in DOMAIN players :
        /\ LastRacer(p) => RaceLeaveResult(p).globalScores = LedgerOwedAfterLeave(p)
        /\ InStoredRace(p) => RaceWinResult(p).globalScores = LedgerOwedAfterWin(p)

\* The race:ended results a handler's result carries.
EndedResults(res) ==
    {res.out[i].data : i \in {j \in DOMAIN res.out : res.out[j].ev = "race:ended"}}

\* History entry a comes strictly before b in the designed order: finished first, then
\* more checkpoints, then the earlier last checkpoint.
RanksAbove(a, b) ==
    \/ a.finished /\ ~b.finished
    \/ /\ a.finished = b.finished
       /\ \/ a.checkpoints > b.checkpoints
          \/ a.checkpoints = b.checkpoints /\ a.lastCheckpointTime < b.lastCheckpointTime

\* `standings` ranks the entries of `history` exactly: every entry once, ranks 1..n in
\* order, and no entry placed below one it comes strictly before.
ExactRanking(standings, history) ==
    /\ Len(standings) = Len(history)
    /\ {standings[i].id : i \in DOMAIN standings} = {history[i].id : i \in DOMAIN history}
    /\ \A i \in DOMAIN standings : standings[i].rank = i
    /\ \A i, j \in DOMAIN standings :
          i < j => ~RanksAbove(EntryOf(history, standings[j].id),
                               EntryOf(history, standings[i].id))

\* C12: the results of End-of-Race ranking are an exact total order of the history:
\* finished first whatever the counts, then by checkpoint count descending, then by
\* last-checkpoint time ascending, ranks 1..n each once, in the leave-triggered and in
\* the win-triggered ranking.
C12_RankingIsTotalOrder ==
    \A p \in DOMAIN players :
        /\ LastRacer(p) =>
              /\ EndedResults(RaceLeaveResult(p)) # {}
              /\ \A s \in EndedResults(RaceLeaveResult(p)) :
                    ExactRanking(s, HistoryAfterLeave(races[players[p].raceId].history, p,
                                                      players[p].raceCheckpoints))
        /\ InStoredRace(p) =>
              /\ EndedResults(RaceWinResult(p)) # {}
              /\ \A s \in EndedResults(RaceWinResult(p)) :
                    ExactRanking(s, HistoryAfterWin(races[players[p].raceId].history, p))

\* A racer can win while another participant's entry holds a count above the
\* winner's, and a third one's a lower count.
C12_Witness ==
    \E p \in DOMAIN players :
        /\ InStoredRace(p)
        /\ \E i, j \in DOMAIN races[players[p].raceId].history :
              /\ races[players[p].raceId].history[i].id # p
              /\ races[players[p].raceId].history[j].id # p
              /\ races[players[p].raceId].history[i].checkpoints > WinCheckpoints
              /\ races[players[p].raceId].history[j].checkpoints < WinCheckpoints

\* C13: a countdown interval whose lobby has been removed from the store (its last
\* member left or disconnected, or the janitor expired it) creates no race or battle
\* session and changes no player's membership when it fires.
C13_CountdownRevalidates ==
    \A i \in DOMAIN intervals, seed \in Seeds, types \in [1..MaxPickups -> PickupTypes] :
        intervals[i].lobby \notin lobbies =>
            /\ CountdownTickResult(i, seed, types).races = races
            /\ CountdownTickResult(i, seed, types).battles = battles
            /\ CountdownTickResult(i, seed, types).players = players

\* C14: a pickup-respawn timeout that fires after its battle session was deleted
\* reactivates no pickup and broadcasts nothing: it leaves every session store as it
\* was and only retires itself.
C14_TimerSparesDeletedBattle ==
    \A i \in DOMAIN pickupTimers :
        pickupTimers[i].battle \notin DOMAIN battles =>
            /\ PickupRespawnResult(i).out = <<>>
            /\ PickupRespawnResult(i) =
                  [Cur EXCEPT !.pickupTimers = SeqRemoveAt(pickupTimers, i)]

\* A respawn timeout is pending for a pickup of a battle that is gone from the store.
C14_Witness ==
    \E i \in DOMAIN pickupTimers :
        /\ pickupTimers[i].battle \notin DOMAIN battles
        /\ pickupTimers[i].pickup \in 1..MaxPickups

\* Player p belongs to a lobby (its lobbyId is set) or is claimed by a session.
Belongs(p) == players[p].lobbyId # Null \/ SessionsOf(p) # {}

\* C15: lobby:create by a player who already belongs to a lobby or to a running race or
\* battle fails: no lobby is created, no portal is advertised, no state changes.
C15_CreateFailsForMembers ==
    \A p \in DOMAIN players, pos \in PortalPositions, k \in LobbyKinds :
        Belongs(p) => LobbyCreateResult(p, pos, k[1], k[2]) = Cur

\* The ids of the race and battle sessions in the stores.
SessionIds == (DOMAIN races) \cup (DOMAIN battles)
SessionIdsAfter == (DOMAIN races') \cup (DOMAIN battles')

\* C16: a lobby is destroyed on its start-transition: the step in which the countdown
\* of a stored lobby creates its race or battle session leaves the lobby out of the
\* lobby store.
C16_LobbyGoneAtStart ==
    [][\A l \in lobbies :
          (l \notin SessionIds /\ l \in SessionIdsAfter) => l \notin lobbies']_vars

\* Player p is registered and its last position update is more than the quiet
\* interval old.
Silent(p) == p \in DOMAIN players /\ now - players[p].lastUpdate > QuietInterval
SilentPlayers == {p \in DOMAIN players : Silent(p)}

\* A run of the sweep removes every silent player and no other, and when p is the only
\* silent player it leaves the state, and the events, of p's explicit disconnect.
SweepActsAsDisconnect ==
    /\ DOMAIN SweepResult.players = (DOMAIN players) \ SilentPlayers
    /\ \A p \in SilentPlayers :
          SilentPlayers = {p} => SweepResult = DisconnectResult(p)

\* C17: a registered player that has sent no position update for longer than the quiet
\* interval, and sends none, is eventually deregistered by the periodic sweep, and the
\* sweep leaves the lobby, race and battle state an explicit disconnect of that player
\* would leave.
C17_SilentPlayerSwept ==
    /\ []SweepActsAsDisconnect
    /\ \A p \in 1..MaxPlayers : Silent(p) ~> (p \notin DOMAIN players \/ ~Silent(p))

\* A silent player is the host of a lobby with another member, or a participant of a
\* race or a battle with another participant.
C17_Witness ==
    \E p \in DOMAIN players :
        /\ Silent(p)
        /\ \/ \E l \in lobbies : lobbyObjects[l].hostId = p /\ Len(lobbyObjects[l].players) > 1
           \/ \E r \in DOMAIN races : p \in races[r].players /\ races[r].players # {p}
           \/ \E b \in DOMAIN battles :
                 p \in DOMAIN battles[b].players /\ DOMAIN battles[b].players # {p}

\* Session id s names a race, or a battle, of the store with no participant.
EmptyRace(s) == s \in DOMAIN races /\ races[s].players = {}
EmptyBattle(s) == s \in DOMAIN battles /\ DOMAIN battles[s].players = {}

\* C18: every race or battle session whose participant set is empty, one created from
\* a lobby with no remaining member included, is eventually removed from its store.
C18_EmptySessionRemoved ==
    \A s \in 1..SoloLobbies :
        /\ EmptyRace(s) ~> s \notin DOMAIN races
        /\ EmptyBattle(s) ~> s \notin DOMAIN battles

\* Socket p is the host of no lobby of the store.
HostsNoLobby(p) == \A l \in lobbies : lobbyObjects[l].hostId # p

\* C19: lobby:start from anyone but a lobby's current host (a member that is not the
\* host, a former host after migration, a socket in no lobby) fails silently: no
\* countdown, no session, no event, no state change.
C19_OnlyHostStarts ==
    \A p \in EverConnected : HostsNoLobby(p) => LobbyStartResult(p) = Cur

\* A registered member of a stored lobby that is not its host.
C19_Witness ==
    \E l \in lobbies, p \in DOMAIN players :
        /\ players[p].lobbyId = l
        /\ p \in MemberIds(lobbyObjects[l])
        /\ lobbyObjects[l].hostId # p
        /\ LobbyStartResult(p) = Cur

\* Player p is an active participant of the stored race r: in its active set, with a
\* history entry, and with r as its race.
ActiveIn(p, r) ==
    /\ players[p].raceId = r
    /\ p \in races[r].players
    /\ HasEntry(races[r].history, p)

\* C20: over a sequence of race:checkpoint reports with non-decreasing counts from an
\* active participant, the count of its history entry is the last reported count:
\* the entry holds the count the player last reported, and a report of a count not
\* below it leaves the entry with that count.
C20_LastReportStands ==
    \A r \in DOMAIN races, p \in DOMAIN players :
        ActiveIn(p, r) =>
            /\ EntryOf(races[r].history, p).checkpoints = players[p].raceCheckpoints
            /\ \A n \in 0..MaxCheckpoint, t \in 0..MaxTime :
                  n >= EntryOf(races[r].history, p).checkpoints =>
                      /\ EntryOf(RaceCheckpointResult(p, n, t).races[r].history,
                                 p).checkpoints = n
                      /\ RaceCheckpointResult(p, n, t).players[p].raceCheckpoints = n

\* An active participant has reported one checkpoint and can report a second, or the
\* same again.
C20_Witness ==
    \E r \in DOMAIN races, p \in DOMAIN players :
        /\ ActiveIn(p, r)
        /\ EntryOf(races[r].history, p).checkpoints = 1
        /\ EntryOf(RaceCheckpointResult(p, MaxCheckpoint, now).races[r].history,
                   p).checkpoints = MaxCheckpoint

\* Participant p of a session with id s is a registered player whose session
\* reference names s.
RefersTo(p, s) == p \in DOMAIN players /\ players[p].raceId = s

\* C21: every id in the active set of a stored race, and every id in the player map
\* of a stored battle, is a registered player whose raceId is that session's id.
C21_ParticipantsReferToSession ==
    /\ \A r \in DOMAIN races : \A p \in races[r].players : RefersTo(p, r)
    /\ \A b \in DOMAIN battles : \A p \in DOMAIN battles[b].players : RefersTo(p, b)

\* C22: whenever the flag of a CTF battle has a carrier, the carrier is a participant
\* of the battle and is not dead.
C22_CarrierIsLivingParticipant ==
    \A b \in DOMAIN battles :
        (battles[b].hasFlag /\ battles[b].flag.carrierId # Null)
        => /\ battles[b].flag.carrierId \in DOMAIN battles[b].players
           /\ ~battles[b].players[battles[b].flag.carrierId].isDead

\* C23: a registered player's lobbyId, when set, names a lobby of the store that has
\* the player as a member; and every member of a stored lobby that has not started is
\* a registered player whose lobbyId is that lobby.
C23_LobbyReferencesAgree ==
    /\ \A p \in DOMAIN players :
          players[p].lobbyId # Null =>
              /\ players[p].lobbyId \in lobbies
              /\ p \in MemberIds(lobbyObjects[players[p].lobbyId])
    /\ \A l \in lobbies :
          ~lobbyObjects[l].raceStarted =>
              \A p \in MemberIds(lobbyObjects[l]) :
                  p \in DOMAIN players /\ players[p].lobbyId = l

\* The counters a kill moves: the victim's deaths, the shooter's kills and, in a
\* deathmatch, the shooter's score.
Deaths(bs, b, q) == bs[b].players[q].deathCount
Kills(bs, b, q) == bs[b].players[q].killCount
Score(bs, b, q) ==
    IF bs[b].mode = "deathmatch" /\ q \in DOMAIN bs[b].scores THEN bs[b].scores[q] ELSE 0

\* What battle:hit by participant p on the living participant t of battle b, with
\* damage d, has to leave in the battles `after`: the hp lowered by d and not below 0,
\* and, when that is 0, t dead and one death, one kill and (deathmatch) one point
\* counted; otherwise t alive and no counter moved.
HitCounted(after, b, p, t, d) ==
    LET hp == battles[b].players[t].hp
        left == IF hp > d THEN hp - d ELSE 0
        kill == IF left = 0 THEN 1 ELSE 0
    IN /\ after[b].players[t].hp = left
       /\ after[b].players[t].isDead = (left = 0)
       /\ Deaths(after, b, t) = Deaths(battles, b, t) + kill
       /\ Kills(after, b, p) = Kills(battles, b, p) + kill
       /\ Score(after, b, p) =
             Score(battles, b, p) + (IF battles[b].mode = "deathmatch" THEN kill ELSE 0)
       /\ battles[b].mode # "deathmatch" => after[b].scores = battles[b].scores
       /\ \A q \in DOMAIN battles[b].players :
             /\ q # t => /\ after[b].players[q].hp = battles[b].players[q].hp
                         /\ Deaths(after, b, q) = Deaths(battles, b, q)
             /\ q # p => /\ Kills(after, b, q) = Kills(battles, b, q)
                         /\ Score(after, b, q) = Score(battles, b, q)

\* C24: battle:hit on a living target sets its hp to max(0, hp - damage); when that is
\* zero the target is dead, its death count and the shooter's kill count go up by one
\* (and the shooter's score in a deathmatch); a hit on a dead target changes no hp and
\* no counter, until the target has respawned.
C24_HitClampsAndCountsOnce ==
    \A b \in DOMAIN battles, d \in Damages :
        \A p \in DOMAIN battles[b].players, t \in DOMAIN battles[b].players :
            (p \in DOMAIN players /\ players[p].raceId = b) =>
                IF battles[b].players[t].isDead
                THEN BattleHitResult(p, t, d).battles = battles
                ELSE HitCounted(BattleHitResult(p, t, d).battles, b, p, t, d)

\* A target killed by a hit larger than its hp lies dead with hp 0, one death on its
\* record and one kill and one point on its opponent's, and the opponent hits again.
C24_Witness ==
    \E b \in DOMAIN battles :
      \E p \in DOMAIN battles[b].players, t \in DOMAIN battles[b].players :
        /\ p # t
        /\ p \in DOMAIN players /\ players[p].raceId = b
        /\ battles[b].players[t].isDead
        /\ battles[b].players[t].hp = 0
        /\ Deaths(battles, b, t) = 1
        /\ Kills(battles, b, p) = 1
        /\ Score(battles, b, p) = 1
        /\ BattleHitResult(p, t, StartHp).battles = battles

\* C25: when battle:hit kills the flag's carrier, the carrier is cleared and the flag
\* lies at the position the carrier last reported by player:update.
C25_FlagDropsAtLastPosition ==
    \A b \in DOMAIN battles, p \in DOMAIN players, t \in DOMAIN players :
        ( /\ players[p].raceId = b
          /\ battles[b].hasFlag
          /\ battles[b].flag.carrierId = t
          /\ t \in DOMAIN battles[b].players
          /\ ~battles[b].players[t].isDead
          /\ BattleHitResult(p, t, StartHp).battles[b].players[t].isDead )
        => /\ BattleHitResult(p, t, StartHp).battles[b].flag.carrierId = Null
           /\ BattleHitResult(p, t, StartHp).battles[b].flag.position = players[t].position

\* Participant p of the CTF battle b carries the flag and its last reported position
\* is within the goal radius of the other team's home base.
AtOpposingGoal(b, p) ==
    /\ battles[b].flag.carrierId = p
    /\ \/ /\ battles[b].players[p].team = "blue"
          /\ Within(players[p].position, battles[b].flag.homeBase.red, GoalRadius)
       \/ /\ battles[b].players[p].team = "red"
          /\ Within(players[p].position, battles[b].flag.homeBase.blue, GoalRadius)

\* The battle b after a goal of team `team`: that team's score one higher, the other's
\* as it was, no carrier, the flag at the fixed default position.
GoalCounted(after, b, team) ==
    /\ after[b].scores[team] = battles[b].scores[team] + 1
    /\ \A other \in (DOMAIN battles[b].scores) \ {team} :
          after[b].scores[other] = battles[b].scores[other]
    /\ after[b].flag.carrierId = Null
    /\ after[b].flag.position = FlagResetPosition

\* C26: battle:score succeeds only for the flag's carrier standing within the goal
\* radius of the opposing team's home base; then the caller's team, and no other,
\* scores exactly 1, the carrier is cleared and the flag is reset to the fixed default
\* position; in every other case scores, carrier and flag position are unchanged.
C26_ScoreOnlyAtOpposingGoal ==
    \A b \in DOMAIN battles :
        battles[b].hasFlag =>
            \A p \in (DOMAIN players) \cap (DOMAIN battles[b].players) :
                players[p].raceId = b =>
                    IF AtOpposingGoal(b, p)
                    THEN GoalCounted(BattleScoreResult(p).battles, b,
                                     battles[b].players[p].team)
                    ELSE BattleScoreResult(p) = Cur

\* A carrier stands at the opposing base and its battle:score counts a goal.
C26_Witness ==
    \E b \in DOMAIN battles :
        /\ battles[b].hasFlag
        /\ \E p \in (DOMAIN players) \cap (DOMAIN battles[b].players) :
              /\ players[p].raceId = b
              /\ AtOpposingGoal(b, p)
              /\ BattleScoreResult(p).battles[b].scores[battles[b].players[p].team] = 1
              /\ BattleScoreResult(p).battles[b].flag.carrierId = Null

\* The step fires countdown interval i for the last time and creates the session of
\* its lobby.
CompletesCountdown(i) ==
    /\ intervals' = SeqRemoveAt(intervals, i)
    /\ intervals[i].lobby \notin SessionIds
    /\ intervals[i].lobby \in SessionIdsAfter

\* The participants of session s after the step.
ParticipantsAfter(s) ==
    IF s \in DOMAIN races' THEN races'[s].players ELSE DOMAIN battles'[s].players

\* The registered members of the Lobby object l.
RegisteredMembers(l) == MemberIds(lobbyObjects[l]) \cap DOMAIN players

\* C27, as stated: the session a countdown's completion creates has as participants
\* the lobby's roster at the moment of the lobby:start call, whatever lobby:join,
\* lobby:leave and disconnect events came between the call and the completion.
C27_RosterAsAtStartCall ==
    [][\A i \in DOMAIN intervals :
          CompletesCountdown(i) =>
              ParticipantsAfter(intervals[i].lobby) = intervals[i].roster]_vars

\* C27, amended: the session has as participants the members the lobby has, and that
\* are registered, at the moment the countdown completes: a member that joined during
\* the countdown is in, one that left or disconnected is out.
C27_RosterAsAtCompletion ==
    [][\A i \in DOMAIN intervals :
          CompletesCountdown(i) =>
              ParticipantsAfter(intervals[i].lobby)
                  = RegisteredMembers(intervals[i].lobby)]_vars

\* A countdown is about to complete for a lobby that has gained one member and lost
\* another since the start call, and its last tick creates the race of the members
\* present now.
C27_Witness ==
    \E i \in DOMAIN intervals :
        /\ lobbyObjects[intervals[i].lobby].countdown = 1
        /\ intervals[i].roster \ RegisteredMembers(intervals[i].lobby) # {}
        /\ RegisteredMembers(intervals[i].lobby) \ intervals[i].roster # {}
        /\ intervals[i].lobby \in
              DOMAIN CountdownTickResult(i, 0, [k \in 1..MaxPickups |-> "health"]).races
        /\ CountdownTickResult(i, 0, [k \in 1..MaxPickups |-> "health"])
              .races[intervals[i].lobby].players = RegisteredMembers(intervals[i].lobby)

\* Handler result `res` broadcasts one lobby:countdown carrying n to the room of
\* lobby l, and nothing else.
CountdownSaid(res, l, n) == res.out = << Event("lobby:countdown", <<"lobby", l>>, <<n>>) >>

\* The race:start events of handler result `res`.
RaceStarts(res) == SelectSeq(res.out, LAMBDA e : e.ev = "race:start")

\* Handler result `res` starts the race of lobby l: a single race:start, carrying
\* `seed` and the portal's position moved 100 along z, goes to the race's room, and
\* the sockets in that room are the registered members of the lobby.
RaceStartSaid(res, l, seed) ==
    LET portal == lobbyObjects[l].portalPosition IN
    /\ Len(RaceStarts(res)) = 1
    /\ RaceStarts(res)[1].to = <<"race", l>>
    /\ RaceStarts(res)[1].data[2] = seed
    /\ RaceStarts(res)[1].data[3] = <<portal[1], portal[2], portal[3] + 100>>
    /\ {q \in DOMAIN res.players : res.players[q].raceId = l} = RegisteredMembers(l)

\* C28: after the host's lobby:start on a race lobby the lobby:countdown broadcasts to
\* the lobby carry 3 (at the call), then 2 and 1, one per tick of the interval, and
\* the third tick sends every lobby member a single race:start with the same seed and
\* the start position 100 along z from the portal.
C28_CountdownThenStart ==
    /\ \A p \in DOMAIN players :
          (LobbyStartAllowed(p) /\ lobbyObjects[players[p].lobbyId].mode = "race")
          => CountdownSaid(LobbyStartResult(p), players[p].lobbyId, 3)
    /\ \A i \in DOMAIN intervals, seed \in Seeds :
          LET l == intervals[i].lobby
              c == lobbyObjects[l].countdown
              res == CountdownTickResult(i, seed, [k \in 1..MaxPickups |-> "health"])
          IN (l \in lobbies /\ lobbyObjects[l].mode = "race" /\ c > 0) =>
                 /\ c \in {3, 2, 1}
                 /\ c > 1 => CountdownSaid(res, l, c - 1)
                 /\ c = 1 => RaceStartSaid(res, l, seed)

\* Lobby l has made its start-transition (raceStarted is set), or its Lobby object is
\* out of every timer's and handler's reach.
StartedOrGone(l) == l \notin DOMAIN lobbyObjects \/ lobbyObjects[l].raceStarted
StartedOrGoneAfter(l) == l \notin DOMAIN lobbyObjects' \/ lobbyObjects'[l].raceStarted

\* The step puts a session with id l into a store that had none.
SessionCreated(l) == l \notin SessionIds /\ l \in SessionIdsAfter

\* The players the step makes refer to session l.
MovedInto(l) ==
    {p \in DOMAIN players' :
        players'[p].raceId = l /\ (p \notin DOMAIN players \/ players[p].raceId # l)}

\* The step puts no participant into a session l that exists before and after it.
NoNewParticipant(l) ==
    /\ (l \in DOMAIN races /\ l \in DOMAIN races') => races'[l].players \subseteq races[l].players
    /\ (l \in DOMAIN battles /\ l \in DOMAIN battles')
       => DOMAIN battles'[l].players \subseteq DOMAIN battles[l].players

\* C29: a lobby creates at most one race or battle session and moves each member into
\* a session at most once, however often the host calls lobby:start while a countdown
\* runs: a step that creates lobby l's session or moves a player into it is the
\* lobby's start-transition, and after the start-transition no step does either.
C29_OneSessionPerLobby ==
    [][\A l \in 1..nextLobby :
          /\ (SessionCreated(l) \/ MovedInto(l) # {}) => StartedOrGoneAfter(l)
          /\ StartedOrGone(l) =>
                /\ StartedOrGoneAfter(l)
                /\ ~SessionCreated(l)
                /\ MovedInto(l) = {}
                /\ NoNewParticipant(l)]_vars

\* A lobby started twice has made its start-transition by one of its two intervals,
\* its race exists, and the other interval is still armed.
C29_Witness ==
    \E i \in DOMAIN intervals :
        /\ intervals[i].lobby \in DOMAIN lobbyObjects
        /\ lobbyObjects[intervals[i].lobby].raceStarted
        /\ intervals[i].lobby \in DOMAIN races
        /\ races[intervals[i].lobby].players # {}
        /\ CountdownTickResult(i, 0, [k \in 1..MaxPickups |-> "health"]).races = races

\* The fixed schedule: the placement points of a rank, and what a participant ranked
\* `rank` receives in the win-triggered and in the leave-triggered ranking.
Placement(rank) == IF rank = 1 THEN 100 ELSE IF rank = 2 THEN 50 ELSE IF rank = 3 THEN 25 ELSE 0
Scheduled(kind, rank) == Placement(rank) + (IF kind = "win" THEN 1 ELSE 0)

RECURSIVE ScheduledTotal(_, _)
ScheduledTotal(kind, n) ==
    IF n = 0 THEN 0 ELSE Scheduled(kind, n) + ScheduledTotal(kind, n - 1)

\* The sum of all totals of a ledger.
RECURSIVE LedgerTotal(_)
LedgerTotal(scores) ==
    IF DOMAIN scores = {} THEN 0
    ELSE LET f == CHOOSE x \in DOMAIN scores : TRUE
         IN scores[f] + LedgerTotal(Drop(scores, f))

\* Handler result `res` has paid the schedule of a ranking of kind `kind` over
\* `history`, ranked as `standings`: a participant whose fingerprint no other
\* participant shares has gained what its rank receives, and the ledger as a whole
\* has gained what the ranks 1..n receive together.
SchedulePaid(res, kind, standings, history) ==
    /\ \A i \in DOMAIN standings :
          LET fp == EntryOf(history, standings[i].id).fingerprint IN
          (\A j \in DOMAIN history : history[j].fingerprint = fp => history[j].id = standings[i].id)
          => SavedScore(res.globalScores, fp)
                = SavedScore(globalScores, fp) + Scheduled(kind, standings[i].rank)
    /\ LedgerTotal(res.globalScores)
          = LedgerTotal(globalScores) + ScheduledTotal(kind, Len(standings))

\* C30: points follow the fixed schedule: the win-triggered ranking gives every
\* participant of the history 1 point plus 100, 50 or 25 for rank 1, 2 or 3; the
\* leave-triggered ranking gives ranks 1, 2 and 3 the 100, 50 and 25 and no
\* participation point; a rank below 3 gets no placement points.
C30_FixedSchedule ==
    \A p \in DOMAIN players :
        /\ InStoredRace(p) =>
              LET history == HistoryAfterWin(races[players[p].raceId].history, p)
              IN SchedulePaid(RaceWinResult(p), "win", WinStandings(history), history)
        /\ LastRacer(p) =>
              LET history == HistoryAfterLeave(races[players[p].raceId].history, p,
                                               players[p].raceCheckpoints)
              IN SchedulePaid(RaceLeaveResult(p), "leave", LeaveStandings(history), history)

\* Player p is in the active set of the stored race its PlayerState names.
ActiveRacer(p) == InStoredRace(p) /\ p \in races[players[p].raceId].players

\* The entry of p in the history the win-triggered ranking of p's race:win runs over.
EntryRanked(p) == EntryOf(RaceWinRanking(p).races[players[p].raceId].history, p)

\* C31: race:win from an active participant marks its history entry finished with
\* the count 999999, runs End-of-Race ranking at once over the whole history with
\* that participant at rank 1, deletes the session and clears the race membership
\* of every player of the active set.
C31_WinRanksAndCleans ==
    \A p \in DOMAIN players :
        ActiveRacer(p) =>
            LET r == players[p].raceId
                res == RaceWinResult(p)
            IN /\ HasEntry(RaceWinRanking(p).races[r].history, p)
               /\ EntryRanked(p).finished
               /\ EntryRanked(p).checkpoints = 999999
               /\ Cardinality(EndedResults(res)) = 1
               /\ \A s \in EndedResults(res) :
                     /\ {s[i].id : i \in DOMAIN s} = HistoryIds(r)
                     /\ s[1].id = p /\ s[1].rank = 1
               /\ r \in DOMAIN res.rankings
               /\ res.rankings[r].runs =
                     (IF r \in DOMAIN rankings THEN rankings[r].runs ELSE 0) + 1
               /\ r \notin DOMAIN res.races
               /\ \A q \in races[r].players \cap DOMAIN players :
                     /\ q \in DOMAIN res.players
                     /\ ~res.players[q].inRace
                     /\ res.players[q].raceId = Null

\* An active racer can win while another active racer has reported a count above
\* 999999 and a third participant has already left the race.
C31_Witness ==
    \E p \in DOMAIN players :
        /\ ActiveRacer(p)
        /\ \E q \in races[players[p].raceId].players \ {p} :
              EntryOf(races[players[p].raceId].history, q).checkpoints > WinCheckpoints
        /\ HistoryIds(players[p].raceId) \ races[players[p].raceId].players # {}

\* C32: in every stored race the active set is a subset of the history's keys, and
\* a history entry is flagged active exactly when its participant is in the active
\* set, whatever checkpoint, leave, disconnect and timeout events have happened.
C32_ActiveFlagMatchesActiveSet ==
    \A r \in DOMAIN races :
        /\ races[r].players \subseteq HistoryIds(r)
        /\ \A i \in DOMAIN races[r].history :
              races[r].history[i].active <=> races[r].history[i].id \in races[r].players

\* The connections whose player has been removed, by disconnect or by the sweep.
Removed == EverConnected \ DOMAIN players

\* What a connection can send, as handler results for caller p.
InboundResults(p) ==
    {PlayerUpdateResult(p, pos) : pos \in Positions}
    \cup {LobbyCreateResult(p, pos, k[1], k[2]) : pos \in PortalPositions, k \in LobbyKinds}
    \cup {LobbyJoinResult(p, l) : l \in LobbyIds}
    \cup {LobbyReadyResult(p, b) : b \in BOOLEAN}
    \cup {LobbyStartResult(p), LobbyLeaveResult(p), RaceLeaveResult(p), RaceWinResult(p)}
    \cup {RaceCheckpointResult(p, n, now) : n \in 0..MaxCheckpoint}
    \cup {BattleShootResult(p), BattleFlagPickupResult(p), BattleScoreResult(p)}
    \cup {BattleHitResult(p, target, d) : target \in EverConnected, d \in Damages}
    \cup {BattleRespawnResult(p, spawn) : spawn \in SpawnPoints}
    \cup {BattlePickupResult(p, k, e) : k \in PickupIds, e \in Effects}
    \cup {BattleStealResult(p, target) : target \in EverConnected}

\* C33: once a player has been removed, by disconnect or by the liveness timeout,
\* another deregistration and every event its connection sends afterwards (position
\* update, lobby, race and battle events) leave players, lobbies, races, battles and
\* the ledger as they are.
C33_RemovedPlayerChangesNothing ==
    \A p \in Removed :
        /\ NoChange(DisconnectResult(p))
        /\ NoChange(TimeoutResult(p))
        /\ \A res \in InboundResults(p) : NoChange(res)

\* A player has been removed while another one is in a battle or a race, with full
\* hp where it is a battle: a target the removed connection's events could reach.
C33_Witness ==
    \E p \in Removed, q \in DOMAIN players :
        /\ players[q].raceId # Null
        /\ players[q].raceId \in DOMAIN battles \cup DOMAIN races
        /\ players[q].raceId \in DOMAIN battles =>
              /\ q \in DOMAIN battles[players[q].raceId].players
              /\ ~battles[players[q].raceId].players[q].isDead

\* The carrier of p's battle after the handler result `res`.
CarrierAfter(res, p) == res.battles[players[p].raceId].flag.carrierId

\* Caller p could take the flag from `target`: target carries the flag of p's battle
\* and p's last reported position is within `radius` of target's.
InReachOfCarrier(p, target, radius) ==
    /\ battles[players[p].raceId].flag.carrierId = target
    /\ target \in DOMAIN players
    /\ Within(players[p].position, players[target].position, radius)

\* C34: battle:steal makes the caller the carrier only if targetId is the current
\* carrier and the caller's last reported position is within the steal radius of the
\* carrier's, and leaves the carrier as it is in every other case; the steal radius
\* is larger than the pickup radius, so a caller as close to the carrier as a pickup
\* requires (less than 20 units) is within it.
C34_StealOnlyFromCarrierInReach ==
    \A p \in DOMAIN players, target \in EverConnected :
        (InBattle(p) /\ battles[players[p].raceId].hasFlag) =>
            LET res == BattleStealResult(p, target)
                before == battles[players[p].raceId].flag.carrierId
            IN /\ players[p].raceId \in DOMAIN res.battles
               /\ CarrierAfter(res, p) \in {before, p}
               /\ (CarrierAfter(res, p) # before \/ res.out # <<>>) =>
                      InReachOfCarrier(p, target, StealRadius)
               /\ ~InReachOfCarrier(p, target, StealRadius) => res = Cur
               /\ (target # Null /\ InReachOfCarrier(p, target, 20)) =>
                      CarrierAfter(res, p) = p

\* Everything of battle b but its player records is the same in `bs` as now.
SessionKept(bs, b) ==
    /\ bs[b].scores = battles[b].scores
    /\ bs[b].hasFlag = battles[b].hasFlag
    /\ bs[b].flag = battles[b].flag
    /\ bs[b].pickups = battles[b].pickups
    /\ bs[b].mode = battles[b].mode

\* C35: battle:respawn changes nothing and emits nothing unless the caller is a dead
\* participant of its battle; for a dead caller it clears isDead and sets hp to
\* maxHp and ammo to 20, and leaves the kill and death counters, every other
\* participant, the scores and the flag as they are.
C35_RespawnOnlyWhenDead ==
    \A p \in EverConnected, spawn \in SpawnPoints :
        LET res == BattleRespawnResult(p, spawn)
            dead == /\ InBattle(p)
                    /\ p \in DOMAIN battles[players[p].raceId].players
                    /\ battles[players[p].raceId].players[p].isDead
        IN IF ~dead THEN res = Cur
           ELSE LET b == players[p].raceId
                    was == battles[b].players[p]
                    is == res.battles[b].players[p]
                IN /\ ~is.isDead /\ is.hp = was.maxHp /\ is.ammo = 20
                   /\ is.maxHp = was.maxHp
                   /\ is.killCount = was.killCount /\ is.deathCount = was.deathCount
                   /\ is.team = was.team
                   /\ DOMAIN res.battles = DOMAIN battles
                   /\ DOMAIN res.battles[b].players = DOMAIN battles[b].players
                   /\ \A q \in DOMAIN battles[b].players \ {p} :
                         res.battles[b].players[q] = battles[b].players[q]
                   /\ \A c \in DOMAIN battles \ {b} : res.battles[c] = battles[c]
                   /\ SessionKept(res.battles, b)
                   /\ [res EXCEPT !.battles = battles, !.out = <<>>] = Cur

\* A participant that has shot and is dead, in a deathmatch where a kill has been
\* scored: its respawn has ammo to restore and counters and scores to keep.
C35_Witness ==
    \E p \in DOMAIN players :
        /\ InBattle(p)
        /\ p \in DOMAIN battles[players[p].raceId].players
        /\ battles[players[p].raceId].players[p].isDead
        /\ battles[players[p].raceId].players[p].ammo < 20
        /\ battles[players[p].raceId].players[p].deathCount > 0
        /\ \E q \in DOMAIN battles[players[p].raceId].players :
              battles[players[p].raceId].players[q].killCount > 0

\* The battle:projectile events a handler's result carries.
Projectiles(res) == {i \in DOMAIN res.out : res.out[i].ev = "battle:projectile"}

\* C36: battle:shoot by a dead participant or by one with no ammo changes no state
\* and broadcasts no projectile; by any other participant it takes exactly 1 from
\* the shooter's ammo, changes nothing else and broadcasts one projectile; no
\* participant's ammo is ever negative.
C36_ShootSpendsOneRound ==
    /\ \A b \in DOMAIN battles, q \in DOMAIN players :
          q \in DOMAIN battles[b].players => battles[b].players[q].ammo >= 0
    /\ \A p \in DOMAIN players :
          (InBattle(p) /\ p \in DOMAIN battles[players[p].raceId].players) =>
              LET b == players[p].raceId
                  was == battles[b].players[p]
                  res == BattleShootResult(p)
              IN IF was.isDead \/ was.ammo = 0
                 THEN NoChange(res) /\ Projectiles(res) = {}
                 ELSE /\ res.battles[b].players[p] = [was EXCEPT !.ammo = was.ammo - 1]
                      /\ res.battles[b].players[p].ammo >= 0
                      /\ Cardinality(Projectiles(res)) = 1
                      /\ \A i \in Projectiles(res) :
                            res.out[i].to = <<"battle", b>> /\ res.out[i].data[1] = p
                      /\ [res EXCEPT !.battles[b].players[p] = was, !.out = <<>>] = Cur

\* A living participant has spent all its ammo while a dead one still has some.
C36_Witness ==
    \E b \in DOMAIN battles :
        \E p \in DOMAIN battles[b].players, q \in DOMAIN battles[b].players :
            /\ p \in DOMAIN players /\ InBattle(p) /\ players[p].raceId = b
            /\ q \in DOMAIN players /\ InBattle(q) /\ players[q].raceId = b
            /\ ~battles[b].players[p].isDead /\ battles[b].players[p].ammo = 0
            /\ battles[b].players[q].isDead /\ battles[b].players[q].ammo > 0

\* C37: every battle player's hp is at least 0 and at most its maxHp, and its dead
\* flag is set exactly when its hp is 0, in every state that battle:hit with any
\* integer damage (negative and zero included), battle:pickup and battle:respawn
\* can lead to.
C37_HpWithinBounds ==
    \A b \in DOMAIN battles :
        \A q \in DOMAIN battles[b].players :
            /\ 0 <= battles[b].players[q].hp
            /\ battles[b].players[q].hp <= battles[b].players[q].maxHp
            /\ battles[b].players[q].isDead <=> battles[b].players[q].hp = 0

\* C38: in a deathmatch battle the score entry of every current member equals that
\* member's kill count, whatever hit, respawn and disconnect events have happened.
C38_ScoreEqualsKills ==
    \A b \in DOMAIN battles :
        battles[b].mode = "deathmatch" =>
            \A q \in DOMAIN battles[b].players :
                /\ q \in DOMAIN battles[b].scores
                /\ battles[b].scores[q] = battles[b].players[q].killCount

\* A member of a deathmatch has a kill to its name and has respawned after its own
\* death, and another participant has disconnected from the battle.
C38_Witness ==
    \E b \in DOMAIN battles :
        /\ battles[b].mode = "deathmatch"
        /\ DOMAIN battles[b].scores \ DOMAIN battles[b].players # {}
        /\ \E q \in DOMAIN battles[b].players :
              /\ battles[b].players[q].killCount > 0
              /\ battles[b].players[q].deathCount > 0
              /\ ~battles[b].players[q].isDead

\* C39: the score mirrored in every registered player's record equals the ledger
\* total stored under that player's fingerprint (0 when the ledger has none), also
\* when several registered players share a fingerprint.
C39_MirrorEqualsLedger ==
    \A p \in DOMAIN players :
        players[p].score = (IF players[p].fingerprint \in DOMAIN globalScores
                            THEN globalScores[players[p].fingerprint] ELSE 0)

====
